---------------------------- MODULE Spec2Model ----------------------------
(***************************************************************************)
(* A model of asc-rs, a single-pass compiler from an ActionScript-like     *)
(* language to AVM1 bytecode: the scanner (src/src/scanner.rs) and the     *)
(* Pratt expression / statement compiler (src/src/compiler.rs).            *)
(*                                                                         *)
(* The source text is a sequence of one-character strings.  The scanner is *)
(* modelled character by character; the compiler is modelled function by   *)
(* function as recursive operators over a context record that carries the  *)
(* scanner, the one-token lookahead and the active action buffer.  Emitted *)
(* actions are records; ActionSize gives the number of bytes each one      *)
(* occupies in the action buffer.                                          *)
(***************************************************************************)
EXTENDS Integers, Sequences, FiniteSets, TLC

VARIABLES
    source,       \* the source text handed to compile / Scanner::new
    scanner,      \* Scanner { offset, line, column } and the position of `chars`
    current,      \* CompilerState::current, the one-token lookahead
    action_data,  \* the top-level Compiler::action_data
    pc,           \* where compile stands: "new", "loop", "ok", "err", "panic"
    error,        \* the CompileError returned (NoError while there is none)
    stdout,       \* what compilation has printed to standard output
    output,       \* the tags written to the `output` writer of compile
    reads,        \* number of read_token calls made once Eof has been returned
    run,          \* which call of compile on this source is under way: 1, 2
    first         \* what the first call of compile returned and wrote

vars ==
    <<source, scanner, current, action_data, pc, error, stdout, output, reads,
      run, first>>

-----------------------------------------------------------------------------
(* Characters *)

NoChar == ""
Whitespace == {" ", "\t", "\n", "\r", "\f"}
Digits == {"0", "1", "2", "3", "4", "5", "6", "7", "8", "9"}
Letters ==
    {"a", "b", "c", "d", "e", "f", "g", "h", "i", "j", "k", "l", "m",
     "n", "o", "p", "q", "r", "s", "t", "u", "v", "w", "x", "y", "z",
     "A", "B", "C", "D", "E", "F", "G", "H", "I", "J", "K", "L", "M",
     "N", "O", "P", "Q", "R", "S", "T", "U", "V", "W", "X", "Y", "Z"}
IdentStart == Letters \cup {"_", "$"}
IdentChar == IdentStart \cup Digits

DigitValue(ch) ==
    CASE ch = "0" -> 0 [] ch = "1" -> 1 [] ch = "2" -> 2 [] ch = "3" -> 3
      [] ch = "4" -> 4 [] ch = "5" -> 5 [] ch = "6" -> 6 [] ch = "7" -> 7
      [] ch = "8" -> 8 [] ch = "9" -> 9

Min(a, b) == IF a < b THEN a ELSE b

\* let c1 = v; K(c1): v is named once and K uses the name.
Bind(v, K(_)) == K(v)

RECURSIVE Text(_)
\* The characters of a lexeme as one string (for messages).
Text(chs) == IF chs = <<>> THEN "" ELSE Head(chs) \o Text(Tail(chs))

-----------------------------------------------------------------------------
(* Scanner *)

NoError == [message |-> "", line |-> 0, column |-> 0]

CompileError(message, line, column) ==
    [message |-> message, line |-> line, column |-> column]

\* Token::INVALID
INVALID == [kind |-> "Eof", source |-> <<>>, line |-> 0, column |-> 0]

\* Scanner::new; `chars` counts the characters the iterator has yielded.
ScannerNew(text) ==
    [source |-> text, chars |-> 0, offset |-> 0, line |-> 1, column |-> 1]

\* self.chars.peek()
peek(s) == IF s.chars < Len(s.source) THEN s.source[s.chars + 1] ELSE NoChar

read_char(s) ==
    IF s.chars >= Len(s.source)
    THEN [s EXCEPT !.offset = Len(s.source)]
    ELSE LET c == s.source[s.chars + 1] IN
         [s EXCEPT !.chars = s.chars + 1,
                   !.offset = s.chars,
                   !.line = IF c = "\n" THEN s.line + 1 ELSE s.line,
                   !.column = IF c = "\n" THEN 1 ELSE s.column + 1]

RECURSIVE skip_spaces(_)
skip_spaces(s) ==
    IF peek(s) \in Whitespace THEN skip_spaces(read_char(s)) ELSE s

RECURSIVE read_number(_)
read_number(s) ==
    IF peek(s) \in Digits THEN read_number(read_char(s)) ELSE s

RECURSIVE read_string_loop(_, _, _, _)
\* The loop of read_string; line, column are the locals captured on entry.
read_string_loop(s, quote, line, column) ==
    LET c == peek(s)
        s1 == read_char(s)
    IN  IF c = NoChar
        THEN [ok |-> FALSE, s |-> s1,
              error |-> CompileError("Unclosed string", line, column)]
        ELSE IF c = quote
        THEN [ok |-> TRUE, s |-> s1, error |-> NoError]
        ELSE read_string_loop(s1, quote, line, column)

\* let line = self.line; let column = self.column; loop { ... }
read_string(s, quote) == read_string_loop(s, quote, s.line, s.column)

RECURSIVE read_identifier_chars(_)
read_identifier_chars(s) ==
    IF peek(s) \in IdentChar THEN read_identifier_chars(read_char(s)) ELSE s

\* The slice read_identifier returns, with the scanner after it.
read_identifier(s) ==
    Bind(read_identifier_chars(s), LAMBDA s1 :
        [s |-> s1,
         text |-> SubSeq(s.source, s.offset + 1,
                         Min(s1.offset + 1, Len(s.source)))])

Keyword(text) ==
    CASE text = <<"c", "a", "t", "c", "h">> -> "Catch"
      [] text = <<"d", "e", "l", "e", "t", "e">> -> "Delete"
      [] text = <<"e", "l", "s", "e">> -> "Else"
      [] text = <<"f", "a", "l", "s", "e">> -> "False"
      [] text = <<"f", "i", "n", "a", "l", "l", "y">> -> "Finally"
      [] text = <<"f", "u", "n", "c", "t", "i", "o", "n">> -> "Function"
      [] text = <<"i", "f">> -> "If"
      [] text = <<"i", "n", "s", "t", "a", "n", "c", "e", "o", "f">> -> "InstanceOf"
      [] text = <<"n", "e", "w">> -> "New"
      [] text = <<"n", "u", "l", "l">> -> "Null"
      [] text = <<"t", "h", "r", "o", "w">> -> "Throw"
      [] text = <<"t", "r", "a", "c", "e">> -> "Trace"
      [] text = <<"t", "r", "u", "e">> -> "True"
      [] text = <<"t", "r", "y">> -> "Try"
      [] text = <<"t", "y", "p", "e", "o", "f">> -> "Typeof"
      [] text = <<"u", "n", "d", "e", "f", "i", "n", "e", "d">> -> "Undefined"
      [] text = <<"v", "a", "r">> -> "Var"
      [] text = <<"w", "h", "i", "l", "e">> -> "While"
      [] OTHER -> "Identifier"

\* A token kind with the scanner after the characters that belong to it.
Kind(kind, s) == [kind |-> kind, s |-> s]

\* match self.chars.peek() { Some(ch) => { self.read_char(); with } _ => without }
Follow(s, ch, with, without) ==
    IF peek(s) = ch THEN Kind(with, read_char(s)) ELSE Kind(without, s)

\* One- to four-character operators; s is the scanner after the first
\* character c has been read.
Operator(c, s) ==
    CASE c = "(" -> Kind("LeftParen", s)
      [] c = ")" -> Kind("RightParen", s)
      [] c = "{" -> Kind("LeftBrace", s)
      [] c = "}" -> Kind("RightBrace", s)
      [] c = "[" -> Kind("LeftSquareBrace", s)
      [] c = "]" -> Kind("RightSquareBrace", s)
      [] c = "&" -> Follow(s, "=", "AmpersandEqual", "Ampersand")
      [] c = "!" -> Follow(s, "=", "BangEqual", "Bang")
      [] c = "|" -> Follow(s, "=", "BarEqual", "Bar")
      [] c = "^" -> Follow(s, "=", "CaretEqual", "Caret")
      [] c = "," -> Kind("Comma", s)
      [] c = "." -> Kind("Dot", s)
      [] c = "=" ->
            IF peek(s) = "="
            THEN Follow(read_char(s), "=", "TripleEqual", "DoubleEqual")
            ELSE Kind("Equal", s)
      [] c = ">" ->
            IF peek(s) = "=" THEN Kind("GreaterEqual", read_char(s))
            ELSE IF peek(s) = ">"
            THEN Bind(read_char(s), LAMBDA s1 :
                     IF peek(s1) = "="
                     THEN Kind("DoubleGreaterEqual", read_char(s1))
                     ELSE IF peek(s1) = ">"
                     THEN Follow(read_char(s1), "=",
                                 "TripleGreaterEqual", "TripleGreater")
                     ELSE Kind("DoubleGreater", s1))
            ELSE Kind("Greater", s)
      [] c = "<" ->
            IF peek(s) = "=" THEN Kind("LessEqual", read_char(s))
            ELSE IF peek(s) = "<"
            THEN Follow(read_char(s), "=", "DoubleLessEqual", "DoubleLess")
            ELSE Kind("Less", s)
      [] c = "-" ->
            IF peek(s) = "=" THEN Kind("MinusEqual", read_char(s))
            ELSE Follow(s, "-", "DoubleMinus", "Minus")
      [] c = "%" -> Follow(s, "=", "PercentEqual", "Percent")
      [] c = "+" ->
            IF peek(s) = "=" THEN Kind("PlusEqual", read_char(s))
            ELSE Follow(s, "+", "DoublePlus", "Plus")
      [] c = ":" -> Kind("Colon", s)
      [] c = ";" -> Kind("Semicolon", s)
      [] c = "/" -> Follow(s, "=", "SlashEqual", "Slash")
      [] c = "*" -> Follow(s, "=", "StarEqual", "Star")
      [] c = "~" -> Kind("Tilda", s)
      [] OTHER -> Kind("Unknown", s)

RECURSIVE skip_line_comment(_)
\* loop { match read_char() { None | Some('\n') => break, _ => {} } }
skip_line_comment(s) ==
    IF peek(s) = NoChar \/ peek(s) = "\n"
    THEN read_char(s)
    ELSE skip_line_comment(read_char(s))

\* The inner match of the block comment loop, after a None or '*' was read.
RECURSIVE skip_block_comment(_)
block_comment_star(s) ==
    IF peek(s) = NoChar \/ peek(s) = "/"
    THEN read_char(s)
    ELSE skip_block_comment(read_char(s))

\* loop { match read_char() { None | Some('*') => match read_char() {
\*     None | Some('/') => break, _ => {} }, _ => {} } }
skip_block_comment(s) ==
    IF peek(s) = NoChar \/ peek(s) = "*"
    THEN block_comment_star(read_char(s))
    ELSE skip_block_comment(read_char(s))

\* Token { kind, source: &self.source[start..=self.offset], line, column }
Token(s, start, kind, line, column) ==
    [kind |-> kind,
     source |-> SubSeq(s.source, start + 1, Min(s.offset + 1, Len(s.source))),
     line |-> line, column |-> column]

\* What read_token returns with the scanner it leaves: Ok(token), Err(error).
Ok(s, token) == [ok |-> TRUE, s |-> s, error |-> NoError, token |-> token]
Fail(s, e) == [ok |-> FALSE, s |-> s, error |-> e, token |-> INVALID]

RECURSIVE read_token(_)
\* Scanner::read_token: [ok, s, token, error].
read_token(s) ==
    Bind(skip_spaces(s), LAMBDA sp :
    Bind(read_char(sp), LAMBDA s0 :
        LET c == peek(sp)
            line == sp.line
            column == sp.column
            start == s0.offset
        IN  CASE c = NoChar ->
                    Ok(s0, Token(s0, start, "Eof", s.line, s.column))
              [] c = "/" /\ peek(s0) = "/" -> read_token(skip_line_comment(s0))
              [] c = "/" /\ peek(s0) = "*" ->
                    read_token(skip_block_comment(read_char(s0)))
              [] c \in Digits ->
                    Bind(read_number(s0), LAMBDA s1 :
                        Ok(s1, Token(s1, start, "Number", line, column)))
              [] c \in {"\"", "'"} ->
                    Bind(read_string(s0, c), LAMBDA r :
                        IF r.ok
                        THEN Ok(r.s, Token(r.s, start, "String", line, column))
                        ELSE Fail(r.s, r.error))
              [] c \in IdentStart ->
                    Bind(read_identifier(s0), LAMBDA r :
                        Ok(r.s, Token(r.s, start, Keyword(r.text),
                                      line, column)))
              [] OTHER ->
                    Bind(Operator(c, s0), LAMBDA r :
                        IF r.kind = "Unknown"
                        THEN Fail(s0, CompileError(
                                          "Unknown character '" \o c \o "'",
                                          line, column))
                        ELSE Ok(r.s, Token(r.s, start, r.kind, line, column)))))

-----------------------------------------------------------------------------
(* Precedence (the derived Ord of the enum) *)

PrecNone == 0
PrecAssignment == 1
PrecBitwiseOr == 2
PrecBitwiseXor == 3
PrecBitwiseAnd == 4
PrecEquality == 5
PrecComparison == 6
PrecBitwiseShift == 7
PrecTerm == 8
PrecFactor == 9
PrecUnary == 10
PrecCall == 11
PrecConstruct == 12
PrecDelete == 13
PrecPath == 14
PrecPrimary == 15

\* Assignment allowed only below Assignment precedence.
can_assign_below(p) == p < PrecAssignment

can_assign(p) == p <= PrecAssignment
is_construct(p) == p = PrecConstruct
is_delete(p) == p = PrecDelete

\* TokenKind::precedence
precedence(kind) ==
    CASE kind \in {"Dot", "LeftSquareBrace"} -> PrecPath
      [] kind = "LeftParen" -> PrecCall
      [] kind \in {"Bang", "Delete", "Tilda", "Throw", "Typeof"} -> PrecUnary
      [] kind \in {"Star", "Slash", "Percent"} -> PrecFactor
      [] kind \in {"Plus", "Minus"} -> PrecTerm
      [] kind \in {"DoubleGreater", "TripleGreater", "DoubleLess"} -> PrecBitwiseShift
      [] kind \in {"Greater", "GreaterEqual", "Less", "LessEqual", "InstanceOf"} ->
            PrecComparison
      [] kind \in {"BangEqual", "DoubleEqual", "TripleEqual"} -> PrecEquality
      [] kind = "Ampersand" -> PrecBitwiseAnd
      [] kind = "Caret" -> PrecBitwiseXor
      [] kind = "Bar" -> PrecBitwiseOr
      [] OTHER -> PrecNone

\* TokenKind::is_assign
is_assign(kind) ==
    kind \in {"Equal", "PlusEqual", "MinusEqual", "StarEqual", "SlashEqual",
              "PercentEqual", "AmpersandEqual", "BarEqual", "CaretEqual",
              "DoubleGreaterEqual", "TripleGreaterEqual", "DoubleLessEqual"}

None == [some |-> FALSE, v |-> 0]
Some(v) == [some |-> TRUE, v |-> v]

\* A table with no entry: every name is an ordinary member.
property_index_none(name) == None

property_index(name) ==
    CASE name = <<"_", "x">> -> Some(0)
      [] name = <<"_", "y">> -> Some(1)
      [] name = <<"_", "x", "s", "c", "a", "l", "e">> -> Some(2)
      [] name = <<"_", "y", "s", "c", "a", "l", "e">> -> Some(3)
      [] name = <<"_", "c", "u", "r", "r", "e", "n", "t", "f", "r", "a", "m", "e">> -> Some(4)
      [] name = <<"_", "t", "o", "t", "a", "l", "f", "r", "a", "m", "e", "s">> -> Some(5)
      [] name = <<"_", "a", "l", "p", "h", "a">> -> Some(6)
      [] name = <<"_", "v", "i", "s", "i", "b", "l", "e">> -> Some(7)
      [] name = <<"_", "w", "i", "d", "t", "h">> -> Some(8)
      [] name = <<"_", "h", "e", "i", "g", "h", "t">> -> Some(9)
      [] name = <<"_", "r", "o", "t", "a", "t", "i", "o", "n">> -> Some(10)
      [] name = <<"_", "t", "a", "r", "g", "e", "t">> -> Some(11)
      [] name = <<"_", "f", "r", "a", "m", "e", "s", "l", "o", "a", "d", "e", "d">> -> Some(12)
      [] name = <<"_", "n", "a", "m", "e">> -> Some(13)
      [] name = <<"_", "d", "r", "o", "p", "t", "a", "r", "g", "e", "t">> -> Some(14)
      [] name = <<"_", "u", "r", "l">> -> Some(15)
      [] name = <<"_", "h", "i", "g", "h", "q", "u", "a", "l", "i", "t", "y">> -> Some(16)
      [] name = <<"_", "f", "o", "c", "u", "s", "r", "e", "c", "t">> -> Some(17)
      [] name = <<"_", "s", "o", "u", "n", "d", "b", "u", "f", "t", "i", "m", "e">> -> Some(18)
      [] name = <<"_", "q", "u", "a", "l", "i", "t", "y">> -> Some(19)
      [] name = <<"_", "x", "m", "o", "u", "s", "e">> -> Some(20)
      [] name = <<"_", "y", "m", "o", "u", "s", "e">> -> Some(21)
      [] OTHER -> None

I32_MAX == 2147483647
I16_MAX == 32767
U8_MAX == 255

RECURSIVE parse_digits(_, _, _)
\* str::parse for an unsigned decimal: None on a non-digit or on a value above max.
parse_digits(text, acc, max) ==
    IF text = <<>> THEN Some(acc)
    ELSE IF Head(text) \notin Digits THEN None
    ELSE LET d == DigitValue(Head(text)) IN
         IF acc > (max - d) \div 10 THEN None
         ELSE parse_digits(Tail(text), acc * 10 + d, max)

\* str::parse::<T>().ok() on a lexeme (no sign can occur in one): T's maximum is max.
parse(text, max) == IF text = <<>> THEN None ELSE parse_digits(text, 0, max)

register_prefix == <<"r", "e", "g", "i", "s", "t", "e", "r">>

\* The suffix parsed into an i32 instead of a u8.
register_index_i32(name) ==
    IF Len(name) >= Len(register_prefix)
       /\ SubSeq(name, 1, Len(register_prefix)) = register_prefix
    THEN parse(SubSeq(name, Len(register_prefix) + 1, Len(name)), I32_MAX)
    ELSE None

register_index(name) ==
    IF Len(name) >= Len(register_prefix)
       /\ SubSeq(name, 1, Len(register_prefix)) = register_prefix
    THEN parse(SubSeq(name, Len(register_prefix) + 1, Len(name)), U8_MAX)
    ELSE None

\* The builtin table of expression_with_precedence: the action and the arity.
Builtin(name) ==
    CASE name = <<"c", "a", "l", "l">> ->
            [some |-> TRUE, action |-> "Call", arity |-> 1]
      [] name = <<"d", "u", "p", "l", "i", "c", "a", "t", "e", "M", "o", "v", "i", "e", "C", "l", "i", "p">> ->
            [some |-> TRUE, action |-> "CloneSprite", arity |-> 3]
      [] name = <<"c", "h", "r">> ->
            [some |-> TRUE, action |-> "AsciiToChar", arity |-> 1]
      [] name = <<"e", "v", "a", "l">> ->
            [some |-> TRUE, action |-> "GetVariable", arity |-> 1]
      [] name = <<"g", "e", "t", "T", "i", "m", "e", "r">> ->
            [some |-> TRUE, action |-> "GetTime", arity |-> 0]
      [] name = <<"i", "n", "t">> ->
            [some |-> TRUE, action |-> "ToInteger", arity |-> 1]
      [] name = <<"l", "e", "n", "g", "t", "h">> ->
            [some |-> TRUE, action |-> "StringLength", arity |-> 1]
      [] name = <<"m", "b", "c", "h", "r">> ->
            [some |-> TRUE, action |-> "MBAsciiToChar", arity |-> 1]
      [] name = <<"m", "b", "l", "e", "n", "g", "t", "h">> ->
            [some |-> TRUE, action |-> "MBStringLength", arity |-> 1]
      [] name = <<"m", "b", "o", "r", "d">> ->
            [some |-> TRUE, action |-> "MBCharToAscii", arity |-> 1]
      [] name = <<"m", "b", "s", "u", "b", "s", "t", "r", "i", "n", "g">> ->
            [some |-> TRUE, action |-> "MBStringExtract", arity |-> 3]
      [] name = <<"n", "e", "x", "t", "F", "r", "a", "m", "e">> ->
            [some |-> TRUE, action |-> "NextFrame", arity |-> 0]
      [] name = <<"o", "r", "d">> ->
            [some |-> TRUE, action |-> "CharToAscii", arity |-> 1]
      [] name = <<"p", "l", "a", "y">> ->
            [some |-> TRUE, action |-> "Play", arity |-> 0]
      [] name = <<"p", "r", "e", "v", "F", "r", "a", "m", "e">> ->
            [some |-> TRUE, action |-> "PreviousFrame", arity |-> 0]
      [] name = <<"r", "a", "n", "d", "o", "m">> ->
            [some |-> TRUE, action |-> "RandomNumber", arity |-> 1]
      [] name = <<"s", "t", "o", "p">> ->
            [some |-> TRUE, action |-> "Stop", arity |-> 0]
      [] name = <<"s", "t", "o", "p", "A", "l", "l", "S", "o", "u", "n", "d", "s">> ->
            [some |-> TRUE, action |-> "StopSounds", arity |-> 0]
      [] name = <<"s", "t", "o", "p", "D", "r", "a", "g">> ->
            [some |-> TRUE, action |-> "EndDrag", arity |-> 0]
      [] name = <<"t", "a", "r", "g", "e", "t", "P", "a", "t", "h">> ->
            [some |-> TRUE, action |-> "TargetPath", arity |-> 1]
      [] name = <<"t", "o", "g", "g", "l", "e", "H", "i", "g", "h", "Q", "u", "a", "l", "i", "t", "y">> ->
            [some |-> TRUE, action |-> "ToggleQuality", arity |-> 0]
      [] OTHER -> [some |-> FALSE, action |-> "", arity |-> 0]

-----------------------------------------------------------------------------
(* Actions and their encoded size *)

\* An emitted action.  t, s, n hold a Push value (its type, string, number), a
\* branch offset, a register, a function name; ps the parameters of a function;
\* sub the bodies a DefineFunction or Try carries; flags which bodies a Try has.
Action(op) ==
    [op |-> op, t |-> "", s |-> <<>>, n |-> 0, ps |-> <<>>, sub |-> <<>>,
     flags |-> {}]

Push(t, s, n) == [Action("Push") EXCEPT !.t = t, !.s = s, !.n = n]
ValueStr(s) == Push("Str", s, 0)
ValueInt(n) == Push("Int", <<>>, n)
ValueRegister(n) == Push("Register", <<>>, n)
ValueBool(b) == Push("Bool", <<>>, IF b THEN 1 ELSE 0)
ValueNull == Push("Null", <<>>, 0)
ValueUndefined == Push("Undefined", <<>>, 0)
\* Value::Double(u32::MAX.into()); n is left 0, the double is 4294967295.0
ValueDoubleU32Max == Push("Double", <<>>, 0)
If(offset) == [Action("If") EXCEPT !.n = offset]
Jump(offset) == [Action("Jump") EXCEPT !.n = offset]
StoreRegister(register) == [Action("StoreRegister") EXCEPT !.n = register]
DefineFunction(name, params, actions) ==
    [Action("DefineFunction") EXCEPT !.s = name, !.ps = params, !.sub = <<actions>>]

JUMP_SIZE == 5
ACTION_HEADER_SIZE == 3

RECURSIVE SumLen(_)
\* The bytes of a list of NUL-terminated strings.
SumLen(strs) ==
    IF strs = <<>> THEN 0 ELSE Len(Head(strs)) + 1 + SumLen(Tail(strs))

RECURSIVE ByteLen(_)
RECURSIVE ActionSize(_)
\* The number of bytes write_action appends for an action: one opcode byte and,
\* for an action that carries data, a two-byte length and the data.
ActionSize(a) ==
    CASE a.op = "Push" ->
            ACTION_HEADER_SIZE + 1 +
            (CASE a.t = "Str" -> Len(a.s) + 1
               [] a.t = "Int" -> 4
               [] a.t = "Double" -> 8
               [] a.t \in {"Register", "Bool"} -> 1
               [] OTHER -> 0)
      [] a.op \in {"If", "Jump"} -> JUMP_SIZE
      [] a.op = "StoreRegister" -> ACTION_HEADER_SIZE + 1
      [] a.op = "DefineFunction" ->
            ACTION_HEADER_SIZE + Len(a.s) + 1 + 2 + SumLen(a.ps) + 2
            + ByteLen(a.sub[1])
      [] a.op = "Try" ->
            ACTION_HEADER_SIZE + 7 + (IF a.t = "Var" THEN Len(a.s) + 1 ELSE 1)
            + ByteLen(a.sub[1]) + ByteLen(a.sub[2]) + ByteLen(a.sub[3])
      [] OTHER -> 1

\* Vec<u8>::len() of a buffer that holds these actions.
ByteLen(data) ==
    IF data = <<>> THEN 0 ELSE ActionSize(Head(data)) + ByteLen(Tail(data))

-----------------------------------------------------------------------------
(* Compiler: the context threaded through the recursive descent *)

\* s, current: CompilerState (scanner, current); data: the action_data of the
\* active Compiler; res: "ok", "err" (a CompileError was returned, in error),
\* "panic" (an unwrap or unreachable! aborted); stdout: what was printed;
\* tok, n, b, buf: the value the last call returned (a Token, a usize, a bool,
\* the Vec<u8> of nested).
Context(s, cur) ==
    [s |-> s, current |-> cur, data |-> <<>>, res |-> "ok", error |-> NoError,
     stdout |-> <<>>, tok |-> INVALID, n |-> 0, b |-> FALSE, buf |-> <<>>]

Failed(c) == c.res # "ok"

\* return Err(CompileError { message, line, column })
Err(c, message, line, column) ==
    IF Failed(c) THEN c
    ELSE [c EXCEPT !.res = "err", !.error = CompileError(message, line, column)]

\* unwrap() on None/Err, unreachable!()
Panic(c) == IF Failed(c) THEN c ELSE [c EXCEPT !.res = "panic"]

write_action(c, action) ==
    IF Failed(c) THEN c ELSE [c EXCEPT !.data = Append(@, action)]

\* self.action_data.extend(bytes), and a closure that writes these actions
extend(c, actions) ==
    IF Failed(c) THEN c ELSE [c EXCEPT !.data = @ \o actions]

\* A method of Compiler called on self: fn names it, prec is its argument.
Method(fn) == [fn |-> fn, prec |-> PrecNone]
WithPrecedence(prec) == [fn |-> "expression_with_precedence", prec |-> prec]

\* apply(c, f) is self.f(); every call that re-enters the expression or the
\* statement compiler is made through it.
RECURSIVE apply(_, _)
\* Compiler::read_token
compiler_read_token(c) ==
    IF Failed(c) THEN c
    ELSE LET r == read_token(c.s) IN
         IF r.ok
         THEN [c EXCEPT !.s = r.s, !.tok = c.current, !.current = r.token]
         ELSE [c EXCEPT !.s = r.s, !.res = "err", !.error = r.error]

peek_token(c) == c.current

consume(c, kind) ==
    IF Failed(c) THEN c
    ELSE IF peek_token(c).kind = kind
    THEN [apply(c, Method("read_token")) EXCEPT !.b = TRUE]
    ELSE [c EXCEPT !.b = FALSE]

expect(c, kind, message) ==
    IF Failed(c) THEN c
    ELSE IF peek_token(c).kind = kind
    THEN apply(c, Method("read_token"))
    ELSE Err(c, message, peek_token(c).line, peek_token(c).column)

push(c, value) == write_action(c, value)

\* count.try_into().unwrap() into an i32, then push Value::Int
push_count(c, count) ==
    IF count > I32_MAX THEN Panic(c) ELSE push(c, ValueInt(count))

-----------------------------------------------------------------------------
(* Compiler: expressions *)

RECURSIVE function_body(_, _)

expression(c) == apply(c, WithPrecedence(PrecAssignment))

\* The closure run on self: what it writes goes into the enclosing buffer.
nested_in_place(c, f) ==
    IF Failed(c) THEN c
    ELSE Bind(apply(c, Method(f)), LAMBDA inner :
             IF Failed(inner) THEN inner
             ELSE [inner EXCEPT !.buf = inner.data])

\* Compiler::nested with the closure f: a fresh Compiler on the same state runs
\* f; its action_data is returned (in buf) and self.action_data is not touched.
nested(c, f) ==
    IF Failed(c) THEN c
    ELSE Bind(apply([c EXCEPT !.data = <<>>], Method(f)), LAMBDA inner :
             IF Failed(inner)
             THEN [inner EXCEPT !.data = c.data]
             ELSE [inner EXCEPT !.data = c.data, !.buf = inner.data])

grouping(c) ==
    expect(expression(c), "RightParen", "Expected ')' after expression")

ArityMessage(arity, count) ==
    "Expected " \o ToString(arity) \o " argument(s), got " \o ToString(count)

\* comma_separated after its loop: c.tok is the token the loop broke with.
comma_separated_end(c, arity, count) ==
    IF Failed(c) THEN c
    ELSE IF arity.some /\ count < arity.v
    THEN Err(c, ArityMessage(arity.v, count), c.tok.line, c.tok.column)
    ELSE [c EXCEPT !.n = count]

RECURSIVE comma_separated_loop(_, _, _, _, _)
comma_separated_loop(c, f, terminator, arity, count) ==
    IF Failed(c) THEN c
    ELSE LET token == peek_token(c) IN
         IF token.kind = terminator
         THEN comma_separated_end(apply(c, Method("read_token")), arity, count)
         ELSE IF arity.some /\ count + 1 > arity.v
         THEN Err(c, ArityMessage(arity.v, count + 1), token.line, token.column)
         ELSE Bind(consume(apply(c, Method(f)), "Comma"), LAMBDA c1 :
                  IF Failed(c1) THEN c1
                  ELSE IF ~c1.b
                  THEN comma_separated_end(
                           expect(c1, terminator, "Expected end of values"),
                           arity, count + 1)
                  ELSE comma_separated_loop(c1, f, terminator, arity, count + 1))

comma_separated(c, f, terminator, arity) ==
    comma_separated_loop(c, f, terminator, arity, 0)

RECURSIVE ConcatInOrder(_)
\* The buffers spliced in the order they were compiled.
ConcatInOrder(values) ==
    IF values = <<>> THEN <<>>
    ELSE Head(values) \o ConcatInOrder(Tail(values))

RECURSIVE ConcatRev(_)
\* for value_data in values.into_iter().rev() { extend(value_data) }
ConcatRev(values) ==
    IF values = <<>> THEN <<>>
    ELSE values[Len(values)] \o ConcatRev(SubSeq(values, 1, Len(values) - 1))

\* comma_separated_rev after its loop.
comma_separated_rev_end(c, values) ==
    IF Failed(c) THEN c
    ELSE [extend(c, ConcatRev(values)) EXCEPT !.n = Len(values)]

RECURSIVE comma_separated_rev_loop(_, _, _)
comma_separated_rev_loop(c, terminator, values) ==
    IF Failed(c) THEN c
    ELSE IF peek_token(c).kind = terminator
    THEN comma_separated_rev_end(apply(c, Method("read_token")), values)
    ELSE Bind(nested(c, "expression"), LAMBDA c1 :
         Bind(consume(c1, "Comma"), LAMBDA c2 :
             IF Failed(c2) THEN c2
             ELSE IF ~c2.b
             THEN comma_separated_rev_end(
                      expect(c2, terminator, "Expected end of values"),
                      Append(values, c1.buf))
             ELSE comma_separated_rev_loop(c2, terminator,
                                           Append(values, c1.buf))))

\* Every caller passes |c| c.expression() as f.
comma_separated_rev(c, terminator) ==
    comma_separated_rev_loop(c, terminator, <<>>)

\* self.push(Value::Int(count)) with the count a comma_separated returned
push_returned_count(c) == push_count(c, c.n)

array(c) ==
    write_action(
        push_returned_count(comma_separated_rev(c, "RightSquareBrace")),
        Action("InitArray"))

\* The closure object passes to comma_separated.
object_property(c) ==
    Bind(expect(c, "Identifier", "Expected property name"), LAMBDA c1 :
        expression(expect(push(c1, ValueStr(c1.tok.source)),
                          "Colon", "Expected ':' after property name")))

object(c) ==
    write_action(
        push_returned_count(comma_separated(c, "property", "RightBrace", None)),
        Action("InitObject"))

\* The action access writes for a compound assignment operator.
AssignAction(kind) ==
    CASE kind = "PlusEqual" -> "Add2"
      [] kind = "MinusEqual" -> "Subtract"
      [] kind = "StarEqual" -> "Multiply"
      [] kind = "SlashEqual" -> "Divide"
      [] kind = "PercentEqual" -> "Modulo"
      [] kind = "AmpersandEqual" -> "BitAnd"
      [] kind = "BarEqual" -> "BitOr"
      [] kind = "CaretEqual" -> "BitXor"
      [] kind = "DoubleGreaterEqual" -> "BitRShift"
      [] kind = "TripleGreaterEqual" -> "BitURShift"
      [] kind = "DoubleLessEqual" -> "BitLShift"
      [] OTHER -> "unreachable"

\* pushes, duplicates, gets, sets: the actions the four closures write.
access(c, pushes, duplicates, gets, sets, can) ==
    IF Failed(c) THEN c
    ELSE IF can /\ is_assign(peek_token(c).kind)
    THEN Bind(apply(c, Method("read_token")), LAMBDA c1 :
         Bind(expression(IF c1.tok.kind = "Equal"
                         THEN extend(c1, pushes)
                         ELSE extend(c1, duplicates \o pushes \o gets)),
              LAMBDA c3 :
             extend(IF c1.tok.kind = "Equal" THEN c3
                    ELSE IF AssignAction(c1.tok.kind) = "unreachable"
                    THEN Panic(c3)
                    ELSE write_action(c3, Action(AssignAction(c1.tok.kind))),
                    sets)))
    ELSE Bind(consume(c, "DoublePlus"), LAMBDA c1 :
             IF Failed(c1) THEN c1
             ELSE IF c1.b
             THEN extend(c1, duplicates \o pushes \o gets
                             \o <<Action("Increment")>> \o sets)
             ELSE Bind(consume(c1, "DoubleMinus"), LAMBDA c2 :
                      IF Failed(c2) THEN c2
                      ELSE IF c2.b
                      THEN extend(c2, duplicates \o pushes \o gets
                                      \o <<Action("Decrement")>> \o sets)
                      ELSE extend(c2, pushes \o gets)))

\* The call forms of variable_access, dot and member_access write this action.
CallAction(prec, construct_action, call_action) ==
    Action(IF is_construct(prec) THEN construct_action ELSE call_action)

variable_access(c, name, prec) ==
    LET register == register_index(name) IN
    Bind(consume(c, "LeftParen"), LAMBDA c1 :
        IF Failed(c1) THEN c1
        ELSE IF c1.b
        THEN IF register.some
             THEN Err(c1, "Cannot call register",
                      peek_token(c1).line, peek_token(c1).column)
             ELSE write_action(
                      push(push_returned_count(
                               comma_separated_rev(c1, "RightParen")),
                           ValueStr(name)),
                      CallAction(prec, "NewObject", "CallFunction"))
        ELSE IF is_delete(prec) /\ precedence(peek_token(c1).kind) < PrecCall
        THEN IF register.some
             THEN Err(c1, "Cannot delete register",
                      peek_token(c1).line, peek_token(c1).column)
             ELSE write_action(push(c1, ValueStr(name)), Action("Delete2"))
        ELSE LET pushes == IF register.some THEN <<>> ELSE <<ValueStr(name)>>
                 gets == IF register.some
                         THEN <<ValueRegister(register.v)>>
                         ELSE <<Action("GetVariable")>>
                 sets == IF register.some
                         THEN <<StoreRegister(register.v)>>
                         ELSE <<Action("SetVariable")>>
             IN  access(c1, pushes, pushes, gets, sets, can_assign(prec)))

dot(c, prec) ==
    Bind(expect(c, "Identifier", "Expected name"), LAMBDA c0 :
    Bind(consume(c0, "LeftParen"), LAMBDA c1 :
        LET name == c0.tok IN
        IF Failed(c1) THEN c1
        ELSE IF c1.b
        THEN write_action(
                 push(write_action(
                          push_returned_count(
                              comma_separated_rev(c1, "RightParen")),
                          Action("StackSwap")),
                      ValueStr(name.source)),
                 CallAction(prec, "NewMethod", "CallMethod"))
        ELSE IF is_delete(prec) /\ precedence(peek_token(c1).kind) < PrecCall
        THEN write_action(push(c1, ValueStr(name.source)), Action("Delete"))
        ELSE LET property == property_index(name.source)
                 pushes == IF property.some
                           THEN <<ValueInt(property.v)>>
                           ELSE <<ValueStr(name.source)>>
                 duplicates == <<Action("PushDuplicate")>> \o pushes
                               \o <<Action("StackSwap")>>
                 gets == IF property.some
                         THEN <<Action("GetProperty")>>
                         ELSE <<Action("GetMember")>>
                 sets == IF property.some
                         THEN <<Action("SetProperty")>>
                         ELSE <<Action("SetMember")>>
             IN  access(c1, pushes, duplicates, gets, sets, can_assign(prec))))

member_access(c, prec) ==
    Bind(nested(c, "expression"), LAMBDA c0 :
    Bind(consume(expect(c0, "RightSquareBrace", "Expected ']'"), "LeftParen"),
         LAMBDA c1 :
        LET name == c0.buf IN
        IF Failed(c1) THEN c1
        ELSE IF c1.b
        THEN write_action(
                 extend(write_action(
                            push_returned_count(
                                comma_separated_rev(c1, "RightParen")),
                            Action("StackSwap")),
                        name),
                 CallAction(prec, "NewMethod", "CallMethod"))
        ELSE IF is_delete(prec) /\ precedence(peek_token(c1).kind) < PrecCall
        THEN write_action(extend(c1, name), Action("Delete"))
        ELSE access(extend(c1, name),
                    <<>>,
                    <<Action("StackSwap"), Action("PushDuplicate"),
                      Action("StackSwap")>>,
                    <<Action("GetMember")>>,
                    <<Action("SetMember")>>,
                    can_assign(prec))))

construct(c) == apply(c, WithPrecedence(PrecConstruct))

delete(c) == apply(c, WithPrecedence(PrecDelete))

unary(c, token_kind) ==
    Bind(apply(CASE token_kind = "Minus" -> push(c, ValueInt(0))
                 [] token_kind = "Tilda" -> push(c, ValueDoubleU32Max)
                 [] OTHER -> c,
               WithPrecedence(PrecUnary)),
         LAMBDA c2 :
        CASE token_kind = "Plus" -> write_action(c2, Action("ToNumber"))
          [] token_kind = "Minus" -> write_action(c2, Action("Subtract"))
          [] token_kind = "Tilda" -> write_action(c2, Action("BitXor"))
          [] token_kind = "Bang" -> write_action(c2, Action("Not"))
          [] token_kind = "Throw" -> write_action(c2, Action("Throw"))
          [] token_kind = "Typeof" -> write_action(c2, Action("TypeOf"))
          [] OTHER -> Panic(c2))

prefix(c, token_kind) ==
    Bind(expect(c, "Identifier", "Expected variable"), LAMBDA c1 :
        LET variable == c1.tok
            register == register_index(variable.source)
        IN
        Bind(IF register.some
             THEN push(c1, ValueRegister(register.v))
             ELSE write_action(
                      push(push(c1, ValueStr(variable.source)),
                           ValueStr(variable.source)),
                      Action("GetVariable")),
             LAMBDA c2 :
        Bind(CASE token_kind = "DoublePlus" ->
                      write_action(c2, Action("Increment"))
               [] token_kind = "DoubleMinus" ->
                      write_action(c2, Action("Decrement"))
               [] OTHER -> Panic(c2),
             LAMBDA c3 :
            IF Failed(c1) THEN c1
            ELSE IF register.some
            THEN write_action(c3, StoreRegister(register.v))
            ELSE write_action(c3, Action("SetVariable")))))

\* The right operand compiled at the operator's own precedence.
next_precedence_same(p) ==
    CASE p \in {PrecNone, PrecConstruct, PrecDelete, PrecPath, PrecPrimary} -> 0
      [] p \in {PrecUnary, PrecCall} -> -1
      [] OTHER -> p

\* The precedence binary compiles its right operand at; 0 stands for the
\* unreachable!() arm and -1 for the arm that returns "Expected binary operator".
next_precedence(p) ==
    CASE p \in {PrecNone, PrecConstruct, PrecDelete, PrecPath, PrecPrimary} -> 0
      [] p \in {PrecUnary, PrecCall} -> -1
      [] OTHER -> p + 1

\* The actions binary writes after the right operand; <<>> is the `_` arm.
BinaryActions(kind) ==
    CASE kind = "Ampersand" -> <<Action("BitAnd")>>
      [] kind = "Bar" -> <<Action("BitOr")>>
      [] kind = "Caret" -> <<Action("BitXor")>>
      [] kind = "Percent" -> <<Action("Modulo")>>
      [] kind = "Plus" -> <<Action("Add2")>>
      [] kind = "Minus" -> <<Action("Subtract")>>
      [] kind = "Slash" -> <<Action("Divide")>>
      [] kind = "Star" -> <<Action("Multiply")>>
      [] kind = "DoubleEqual" -> <<Action("Equals2")>>
      [] kind = "TripleEqual" -> <<Action("StrictEquals")>>
      [] kind = "Greater" -> <<Action("Greater")>>
      [] kind = "DoubleGreater" -> <<Action("BitRShift")>>
      [] kind = "TripleGreater" -> <<Action("BitURShift")>>
      [] kind = "GreaterEqual" -> <<Action("Less"), Action("Not")>>
      [] kind = "Less" -> <<Action("Less")>>
      [] kind = "DoubleLess" -> <<Action("BitLShift")>>
      [] kind = "LessEqual" -> <<Action("Greater"), Action("Not")>>
      [] kind = "InstanceOf" -> <<Action("InstanceOf")>>
      [] OTHER -> <<>>

binary(c, token) ==
    LET next == next_precedence(precedence(token.kind)) IN
    IF Failed(c) THEN c
    ELSE IF next = 0 THEN Panic(c)
    ELSE IF next = -1
    THEN Err(c, "Expected binary operator", token.line, token.column)
    ELSE Bind(apply(c, WithPrecedence(next)), LAMBDA c1 :
             IF BinaryActions(token.kind) = <<>>
             THEN Panic(c1)
             ELSE extend(c1, BinaryActions(token.kind)))

builtin(c, action, arity) ==
    write_action(
        comma_separated(expect(c, "LeftParen", "Expected '('"),
                        "expression", "RightParen", Some(arity)),
        Action(action))

function_expression(c) ==
    IF Failed(c) THEN c
    ELSE IF peek_token(c).kind = "Identifier"
    THEN Err(c, "Function expression must be anonymous",
             peek_token(c).line, peek_token(c).column)
    ELSE function_body(c, <<>>)

\* The prefix dispatch of expression_with_precedence; token has been read.
prefix_dispatch(c, token, prec) ==
    LET k == token.kind IN
    IF Failed(c) THEN c
    ELSE CASE k = "LeftParen" -> grouping(c)
           [] k = "LeftSquareBrace" -> array(c)
           [] k = "LeftBrace" -> object(c)
           [] k = "New" -> construct(c)
           [] k = "Delete" -> delete(c)
           [] k \in {"Plus", "Minus", "Tilda", "Bang", "Throw", "Typeof"} ->
                 unary(c, k)
           [] k \in {"DoublePlus", "DoubleMinus"} -> prefix(c, k)
           [] k = "Number" ->
                 LET integer == parse(token.source, I32_MAX) IN
                 IF integer.some THEN push(c, ValueInt(integer.v)) ELSE Panic(c)
           [] k = "String" ->
                 push(c, ValueStr(SubSeq(token.source, 2, Len(token.source) - 1)))
           [] k = "False" -> push(c, ValueBool(FALSE))
           [] k = "Null" -> push(c, ValueNull)
           [] k = "True" -> push(c, ValueBool(TRUE))
           [] k = "Undefined" -> push(c, ValueUndefined)
           [] k = "Function" -> function_expression(c)
           [] k = "Identifier" ->
                 LET b == Builtin(token.source) IN
                 IF b.some THEN builtin(c, b.action, b.arity)
                 ELSE variable_access(c, token.source, prec)
           [] k = "Eof" ->
                 Err(c, "Unexpected end of file", token.line, token.column)
           [] OTHER ->
                 Err(c, "Unexpected token: \"" \o Text(token.source) \o "\"",
                     token.line, token.column)

RECURSIVE infix_loop(_, _)
\* while self.peek_token().kind.precedence() >= precedence { ... }
infix_loop(c, prec) ==
    IF Failed(c) THEN c
    ELSE IF precedence(peek_token(c).kind) >= prec
    THEN Bind(apply(c, Method("read_token")), LAMBDA c1 :
             infix_loop(CASE c1.tok.kind = "Dot" -> dot(c1, prec)
                          [] c1.tok.kind = "LeftSquareBrace" ->
                                 member_access(c1, prec)
                          [] OTHER -> binary(c1, c1.tok),
                        prec))
    ELSE c

\* The checks of expression_with_precedence after its loop.
post_conditions(c, prec) ==
    LET token == peek_token(c)
        printed == IF is_construct(prec)
                   THEN [c EXCEPT !.stdout = Append(@, token)]
                   ELSE c
    IN  IF Failed(c) THEN c
        ELSE IF can_assign(prec) /\ token.kind = "Equal"
        THEN Err(c, "Invalid assignment target", token.line, token.column)
        ELSE IF is_construct(prec)
                /\ precedence(token.kind) < PrecConstruct
                /\ precedence(token.kind) # PrecNone
        THEN Err(printed, "Invalid construct target", token.line, token.column)
        ELSE IF is_delete(prec)
                /\ precedence(token.kind) < PrecCall
                /\ precedence(token.kind) # PrecNone
        THEN Err(printed, "Invalid delete target", token.line, token.column)
        ELSE printed

expression_with_precedence(c, prec) ==
    Bind(apply(c, Method("read_token")), LAMBDA c0 :
        post_conditions(
            infix_loop(prefix_dispatch(c0, c0.tok, prec), prec), prec))

-----------------------------------------------------------------------------
(* Compiler: statements *)

trace_statement(c) ==
    write_action(
        expect(expect(expression(expect(c, "LeftParen",
                                        "Expected '(' before expression")),
                      "RightParen", "Expected ')' after expression"),
               "Semicolon", "Expected ';' after statement"),
        Action("Trace"))

variable_declaration(c) ==
    Bind(expect(c, "Identifier", "Expected variable name"), LAMBDA c1 :
    Bind(consume(push(c1, ValueStr(c1.tok.source)), "Equal"), LAMBDA c2 :
        expect(IF Failed(c2) THEN c2
               ELSE IF c2.b
               THEN write_action(expression(c2), Action("DefineLocal"))
               ELSE write_action(c2, Action("DefineLocal2")),
               "Semicolon", "Expected ';' after statement")))

RECURSIVE function_params(_, _)
\* The parameter loop of function_body; the names are returned in buf.
function_params(c, params) ==
    Bind(consume(c, "RightParen"), LAMBDA c1 :
        IF Failed(c1) THEN c1
        ELSE IF c1.b THEN [c1 EXCEPT !.buf = params]
        ELSE Bind(expect(c1, "Identifier", "Expected parameter name"),
                  LAMBDA c2 :
             Bind(consume(c2, "Comma"), LAMBDA c3 :
                 LET params1 == Append(params, c2.tok.source) IN
                 IF Failed(c3) THEN c3
                 ELSE IF ~c3.b
                 THEN [expect(c3, "RightParen", "Expected ')'")
                           EXCEPT !.buf = params1]
                 ELSE function_params(c3, params1))))

function_body(c, name) ==
    Bind(function_params(expect(c, "LeftParen", "Expected '('"), <<>>),
         LAMBDA c1 :
    Bind(nested(expect(c1, "LeftBrace", "Expected '{'"), "block_statement"),
         LAMBDA c2 :
        write_action(c2, DefineFunction(name, c1.buf, c2.buf))))

function_declaration(c) ==
    Bind(expect(c, "Identifier", "Expected function name"), LAMBDA c1 :
        function_body(c1, c1.tok.source))

\* The expression and its `;` with the value left on the stack.
expression_statement_without_pop(c) ==
    expect(expression(c), "Semicolon", "Expected ';' after statement")

expression_statement(c) ==
    write_action(
        expect(expression(c), "Semicolon", "Expected ';' after statement"),
        Action("Pop"))

RECURSIVE block_statement_loop(_)
block_statement_loop(c) ==
    IF Failed(c) THEN c
    ELSE IF peek_token(c).kind \notin {"RightBrace", "Eof"}
    THEN block_statement_loop(apply(c, Method("declaration")))
    ELSE c

block_statement(c) ==
    expect(block_statement_loop(c), "RightBrace", "Expected '}' after block")

\* usize -> i16: offset.try_into().unwrap()
branch(c, op, offset) ==
    IF offset > I16_MAX THEN Panic(c)
    ELSE write_action(c, [Action(op) EXCEPT !.n = offset])

\* The offset of the If that if_statement writes before if_body, and of the
\* Jump it writes before else_body.
if_offset(if_body) == ByteLen(if_body)
else_offset(else_body) == ByteLen(else_body)

if_statement(c) ==
    Bind(nested(write_action(
                    expect(expression(expect(c, "LeftParen",
                                             "Expected '(' after if")),
                           "RightParen", "Expected ')' after condition"),
                    Action("Not")),
                "statement"),
         LAMBDA c3 :
    Bind(consume(extend(branch(c3, "If", if_offset(c3.buf)), c3.buf), "Else"),
         LAMBDA c5 :
        IF Failed(c5) THEN c5
        ELSE IF c5.b
        THEN Bind(nested(c5, "statement"), LAMBDA c6 :
                 extend(branch(c6, "Jump", else_offset(c6.buf)), c6.buf))
        ELSE c5))

\* let offset = body.len() + JUMP_SIZE * 2, the offset of the If
while_offset(body) == ByteLen(body) + JUMP_SIZE * 2

\* A distance back that leaves out the If and the Jump themselves.
while_jump_offset_without_opcodes(condition, offset) ==
    ByteLen(condition) + offset - JUMP_SIZE * 2

\* condition.len() + offset, the distance the Jump goes back
while_jump_offset(condition, offset) == ByteLen(condition) + offset

while_statement(c) ==
    Bind(nested(expect(c, "LeftParen", "Expected '(' after while"),
                "expression"),
         LAMBDA c1 :
    Bind(nested(expect(c1, "RightParen", "Expected ')' after condition"),
                "statement"),
         LAMBDA c2 :
        LET condition == c1.buf
            body == c2.buf
            offset == while_offset(body)
        IN
        Bind(extend(branch(extend(write_action(c2, Action("Not")), condition),
                           "If", offset),
                    body),
             LAMBDA c4 :
            IF Failed(c4) THEN c4
            ELSE IF while_jump_offset(condition, offset) > I16_MAX
            THEN Panic(c4)
            ELSE write_action(c4, Jump(-while_jump_offset(condition, offset))))))

\* swf::avm1::types::Try { try_body, catch_body, finally_body }
Try(try_body, has_catch, catch_var, catch_body, has_finally, finally_body) ==
    LET register == register_index(catch_var) IN
    [Action("Try") EXCEPT
        !.t = IF ~has_catch THEN ""
              ELSE IF register.some THEN "Register" ELSE "Var",
        !.s = IF has_catch /\ ~register.some THEN catch_var ELSE <<>>,
        !.n = IF has_catch /\ register.some THEN register.v ELSE 0,
        !.sub = <<try_body,
                  IF has_catch THEN catch_body ELSE <<>>,
                  IF has_finally THEN finally_body ELSE <<>> >>,
        !.flags = (IF has_catch THEN {"catch"} ELSE {})
                  \cup (IF has_finally THEN {"finally"} ELSE {})]

try_statement(c) ==
    Bind(nested(expect(c, "LeftBrace", "Expected '{'"), "block_statement"),
         LAMBDA c1 :
    Bind(consume(c1, "Catch"), LAMBDA c2 :
    Bind(IF Failed(c2) \/ ~c2.b THEN c2
         ELSE expect(expect(c2, "LeftParen", "Expected '('"),
                     "Identifier", "Expected catch variable"),
         LAMBDA c3 :
    Bind(IF Failed(c2) \/ ~c2.b THEN c2
         ELSE nested(expect(expect(c3, "RightParen", "Expected ')'"),
                            "LeftBrace", "Expected '{'"),
                     "block_statement"),
         LAMBDA c4 :
    Bind(consume(c4, "Finally"), LAMBDA c5 :
    Bind(IF Failed(c5) \/ ~c5.b THEN c5
         ELSE nested(expect(c5, "LeftBrace", "Expected '{'"),
                     "block_statement"),
         LAMBDA c6 :
        write_action(c6, Try(c1.buf, c2.b, c3.tok.source, c4.buf,
                             c5.b, c6.buf))))))))

statement(c) ==
    Bind(consume(c, "LeftBrace"), LAMBDA c1 :
    IF Failed(c1) THEN c1 ELSE IF c1.b THEN block_statement(c1) ELSE
    Bind(consume(c1, "If"), LAMBDA c2 :
    IF Failed(c2) THEN c2 ELSE IF c2.b THEN if_statement(c2) ELSE
    Bind(consume(c2, "While"), LAMBDA c3 :
    IF Failed(c3) THEN c3 ELSE IF c3.b THEN while_statement(c3) ELSE
    Bind(consume(c3, "Try"), LAMBDA c4 :
    IF Failed(c4) THEN c4 ELSE IF c4.b THEN try_statement(c4) ELSE
    Bind(consume(c4, "Trace"), LAMBDA c5 :
    IF Failed(c5) THEN c5 ELSE IF c5.b THEN trace_statement(c5)
    ELSE expression_statement(c5))))))

declaration(c) ==
    Bind(consume(c, "Var"), LAMBDA c1 :
    IF Failed(c1) THEN c1 ELSE IF c1.b THEN variable_declaration(c1) ELSE
    Bind(consume(c1, "Function"), LAMBDA c2 :
    IF Failed(c2) THEN c2 ELSE IF c2.b THEN function_declaration(c2)
    ELSE statement(c2)))

apply(c, f) ==
    CASE f.fn = "read_token" -> compiler_read_token(c)
      [] f.fn = "expression" -> expression_with_precedence(c, PrecAssignment)
      [] f.fn = "expression_with_precedence" ->
            expression_with_precedence(c, f.prec)
      [] f.fn = "property" -> object_property(c)
      [] f.fn = "statement" -> statement(c)
      [] f.fn = "block_statement" -> block_statement(c)
      [] f.fn = "declaration" -> declaration(c)

\* Compiler::compile as a whole: prime the lookahead, then declarations to Eof.
RECURSIVE compile_loop(_)
compile_loop(c) ==
    IF Failed(c) THEN c
    ELSE IF peek_token(c).kind # "Eof"
    THEN compile_loop(apply(c, Method("declaration")))
    ELSE c

Compile(text) ==
    compile_loop(apply(Context(ScannerNew(text), INVALID), Method("read_token")))

-----------------------------------------------------------------------------
(* The source texts compile is run on *)

MaxBody == 2      \* statements in a block body
MaxArgs == 4      \* arguments written in a call or elements in a literal
MaxRaw == 5       \* characters of a raw text around string literals
MaxComment == 3   \* characters inside a block comment
MaxReads == 8     \* read_token calls a scanner client makes
MaxList == 3      \* elements of an array literal, arguments of a call

RECURSIVE Repeat(_, _)
Repeat(text, k) == IF k = 0 THEN <<>> ELSE text \o Repeat(text, k - 1)

\* All texts of at most n characters over an alphabet.
Texts(alphabet, n) == UNION {[1..k -> alphabet] : k \in 0..n}

Conds == {<<"a">>, <<"a", " ", "<", " ", "1">>, <<"f", " ", "(", " ", "a", " ", ")">>, <<"a", " ", ".", " ", "b">>}

Block(k) == <<"{", " ">> \o Repeat(<<"b", " ", ";", " ">>, k) \o <<"}">>

DanglingIf == <<"i", "f", " ", "(", " ", "a", " ", ")", " ", "b", " ", ";">>

Bodies ==
    {<<"b", " ", ";">>, <<"t", "r", "a", "c", "e", " ", "(", " ", "a", " ", ")", " ", ";">>, DanglingIf, <<"w", "h", "i", "l", "e", " ", "(", " ", "a", " ", ")", " ", "b", " ", ";">>,
     <<"i", "f", " ", "(", " ", "a", " ", ")", " ", "b", " ", ";", " ", "e", "l", "s", "e", " ", "c", " ", ";">>}
    \cup {Block(k) : k \in 0..MaxBody}

\* A then-branch that an else may follow without binding to an inner if.
ThenBodies == Bodies \ {DanglingIf}

Prefixes == {<<>>, <<"z", " ", ";", " ">>}

IfSrc(p, c, s) == p \o <<"i", "f", " ", "(", " ">> \o c \o <<" ", ")", " ">> \o s
IfElseSrc(p, c, s1, s2) == IfSrc(p, c, s1) \o <<" ", "e", "l", "s", "e", " ">> \o s2
WhileSrc(p, c, s) == p \o <<"w", "h", "i", "l", "e", " ", "(", " ">> \o c \o <<" ", ")", " ">> \o s

IfSources == {IfSrc(p, c, s) : p \in Prefixes, c \in Conds, s \in Bodies}
IfElseSources ==
    {IfElseSrc(p, c, s[1], s[2]) :
        p \in Prefixes, c \in Conds, s \in ThenBodies \X Bodies}
WhileSources == {WhileSrc(p, c, s) : p \in Prefixes, c \in Conds, s \in Bodies}

\* Every token the binary arm of the infix loop can meet, as written.
BinaryOperators ==
    {<<"&">>, <<"|">>, <<"^">>, <<"%">>, <<"+">>, <<"-">>, <<"/">>, <<"*">>, <<"=", "=">>, <<"=", "=", "=">>,
     <<"!", "=">>, <<">">>, <<">", ">">>, <<">", ">", ">">>, <<">", "=">>, <<"<">>, <<"<", "<">>, <<"<", "=">>,
     <<"i", "n", "s", "t", "a", "n", "c", "e", "o", "f">>}

Operands == {<<"a">>, <<"1">>, <<"b", " ", ".", " ", "c">>}

BinarySrc(x, op, y) == x \o <<" ">> \o op \o <<" ">> \o y \o <<" ", ";">>

BinarySources ==
    {BinarySrc(x, op, y) : x \in Operands, op \in BinaryOperators, y \in Operands}

Numbers == {<<"0">>, <<"7">>, <<"0", "0", "7">>, <<"2", "1", "4", "7", "4", "8", "3", "6", "4", "7">>, <<"2", "1", "4", "7", "4", "8", "3", "6", "4", "8">>, <<"9", "9", "9", "9", "9", "9", "9", "9", "9", "9", "9">>}

NumberSrc(n) == <<"x", " ", "=", " ">> \o n \o <<" ", ";">>

NumberSources == {NumberSrc(n) : n \in Numbers}

\* k arguments 1, 1, ... separated by commas; `trailing` writes a comma after
\* the last one.
RECURSIVE List(_, _)
List(item, k) ==
    IF k = 0 THEN <<>>
    ELSE IF k = 1 THEN item
    ELSE item \o <<" ", ",", " ">> \o List(item, k - 1)

ListT(item, k, trailing) ==
    List(item, k) \o (IF trailing /\ k > 0 THEN <<" ", ",">> ELSE <<>>)

BuiltinNames ==
    {<<"c", "a", "l", "l">>, <<"d", "u", "p", "l", "i", "c", "a", "t", "e", "M", "o", "v", "i", "e", "C", "l", "i", "p">>, <<"c", "h", "r">>, <<"e", "v", "a", "l">>, <<"g", "e", "t", "T", "i", "m", "e", "r">>, <<"i", "n", "t">>,
     <<"l", "e", "n", "g", "t", "h">>, <<"m", "b", "c", "h", "r">>, <<"m", "b", "l", "e", "n", "g", "t", "h">>, <<"m", "b", "o", "r", "d">>, <<"m", "b", "s", "u", "b", "s", "t", "r", "i", "n", "g">>,
     <<"n", "e", "x", "t", "F", "r", "a", "m", "e">>, <<"o", "r", "d">>, <<"p", "l", "a", "y">>, <<"p", "r", "e", "v", "F", "r", "a", "m", "e">>, <<"r", "a", "n", "d", "o", "m">>, <<"s", "t", "o", "p">>,
     <<"s", "t", "o", "p", "A", "l", "l", "S", "o", "u", "n", "d", "s">>, <<"s", "t", "o", "p", "D", "r", "a", "g">>, <<"t", "a", "r", "g", "e", "t", "P", "a", "t", "h">>, <<"t", "o", "g", "g", "l", "e", "H", "i", "g", "h", "Q", "u", "a", "l", "i", "t", "y">>}

CallSrc(name, k) == name \o <<" ", "(", " ">> \o List(<<"1">>, k) \o <<" ", ")", " ", ";">>

BuiltinSources == {CallSrc(name, k) : name \in BuiltinNames, k \in 0..MaxArgs}

ArraySrc(k, trailing) == <<"x", " ", "=", " ", "[", " ">> \o ListT(<<"1">>, k, trailing) \o <<" ", "]", " ", ";">>
ObjectSrc(k, trailing) == <<"x", " ", "=", " ", "{", " ">> \o ListT(<<"a", " ", ":", " ", "1">>, k, trailing) \o <<" ", "}", " ", ";">>

LiteralSources ==
    {ArraySrc(k, t) : k \in 0..MaxArgs, t \in BOOLEAN}
    \cup {ObjectSrc(k, t) : k \in 0..MaxArgs, t \in BOOLEAN}

\* What may follow `new`: the operand, and whether it is written as a call.
NewOperands ==
    {<<"F", "o", "o">>, <<"a", " ", ".", " ", "b">>, <<"a", " ", "[", " ", "0", " ", "]">>, <<"a", " ", ".", " ", "b", " ", ".", " ", "c">>, <<"1">>, <<"r", "e", "g", "i", "s", "t", "e", "r", "1">>}

NewSrc(p, operand, k, called) ==
    p \o <<"n", "e", "w", " ">> \o operand
      \o (IF called THEN <<" ", "(", " ">> \o List(<<"1">>, k) \o <<" ", ")">> ELSE <<>>) \o <<" ", ";">>

NewPrefixes == {<<>>, <<"x", " ", "=", " ">>}

NewSources ==
    {NewSrc(p, o, k, called) :
        p \in NewPrefixes, o \in NewOperands, k \in 0..1, called \in BOOLEAN}

\* try over a block of k statements, with or without a catch (of a variable
\* or of a register) and a finally, each over a block of j statements.
CatchKinds == {"none", "var", "register"}

CatchVar(catch) == IF catch = "register" THEN <<"r", "e", "g", "i", "s", "t", "e", "r", "1">> ELSE <<"e">>

TrySrc(k, catch, finally, j) ==
    <<"t", "r", "y", " ">> \o Block(k)
      \o (IF catch = "none" THEN <<>>
          ELSE <<" ", "c", "a", "t", "c", "h", " ", "(", " ">> \o CatchVar(catch) \o <<" ", ")", " ">> \o Block(j))
      \o (IF finally THEN <<" ", "f", "i", "n", "a", "l", "l", "y", " ">> \o Block(j) ELSE <<>>)

TrySources ==
    {TrySrc(k, catch, finally, j) :
        k \in 0..MaxBody, catch \in CatchKinds, finally \in BOOLEAN, j \in 0..MaxBody}

\* Chains of two binary operators over three variables, and of two `=`.
ChainSrc(op1, op2) ==
    <<"a", " ">> \o op1 \o <<" ", "b", " ">> \o op2 \o <<" ", "c", " ", ";">>

ChainSources ==
    {ChainSrc(op1, op2) : op1 \in BinaryOperators \cup {<<"=">>}, op2 \in BinaryOperators \cup {<<"=">>}}

\* `v = N ;` for plain variable names and integer literals with their values.
PlainNames == {<<"x">>, <<"F", "o", "o">>, <<"_", "a", "1">>, <<"$">>}

IntLiterals ==
    {[text |-> <<"0">>, value |-> 0], [text |-> <<"7">>, value |-> 7],
     [text |-> <<"0", "0", "7">>, value |-> 7],
     [text |-> <<"2", "5", "6">>, value |-> 256],
     [text |-> <<"2", "1", "4", "7", "4", "8", "3", "6", "4", "7">>, value |-> 2147483647]}

AssignSrc(v, n) == v \o <<" ", "=", " ">> \o n \o <<" ", ";">>

AssignSources == {AssignSrc(v, l.text) : v \in PlainNames, l \in IntLiterals}

\* The names written after a dot: the properties in the order of their indices,
\* and names that are no property.
PropertyNames ==
    <<<<"_", "x">>,
      <<"_", "y">>,
      <<"_", "x", "s", "c", "a", "l", "e">>,
      <<"_", "y", "s", "c", "a", "l", "e">>,
      <<"_", "c", "u", "r", "r", "e", "n", "t", "f", "r", "a", "m", "e">>,
      <<"_", "t", "o", "t", "a", "l", "f", "r", "a", "m", "e", "s">>,
      <<"_", "a", "l", "p", "h", "a">>,
      <<"_", "v", "i", "s", "i", "b", "l", "e">>,
      <<"_", "w", "i", "d", "t", "h">>,
      <<"_", "h", "e", "i", "g", "h", "t">>,
      <<"_", "r", "o", "t", "a", "t", "i", "o", "n">>,
      <<"_", "t", "a", "r", "g", "e", "t">>,
      <<"_", "f", "r", "a", "m", "e", "s", "l", "o", "a", "d", "e", "d">>,
      <<"_", "n", "a", "m", "e">>,
      <<"_", "d", "r", "o", "p", "t", "a", "r", "g", "e", "t">>,
      <<"_", "u", "r", "l">>,
      <<"_", "h", "i", "g", "h", "q", "u", "a", "l", "i", "t", "y">>,
      <<"_", "f", "o", "c", "u", "s", "r", "e", "c", "t">>,
      <<"_", "s", "o", "u", "n", "d", "b", "u", "f", "t", "i", "m", "e">>,
      <<"_", "q", "u", "a", "l", "i", "t", "y">>,
      <<"_", "x", "m", "o", "u", "s", "e">>,
      <<"_", "y", "m", "o", "u", "s", "e">>>>

MemberNames == {<<"f", "o", "o">>, <<"_", "X">>, <<"x">>, <<"_", "x", "x">>, <<"_">>, <<"_", "x", "1">>, <<"l", "e", "n", "g", "t", "h">>}

DotNames == {PropertyNames[i] : i \in DOMAIN PropertyNames} \cup MemberNames

\* `x . name ;` and `x . name = 1 ;`
DotSrc(name, assigned) ==
    <<"x", " ", ".", " ">> \o name \o (IF assigned THEN <<" ", "=", " ", "1">> ELSE <<>>) \o <<" ", ";">>

DotSources == {DotSrc(name, assigned) : name \in DotNames, assigned \in BOOLEAN}

\* The decimal numeral of a natural number.
DigitChars == <<"0", "1", "2", "3", "4", "5", "6", "7", "8", "9">>

RECURSIVE Decimal(_)
Decimal(n) ==
    IF n < 10 THEN <<DigitChars[n + 1]>>
    ELSE Decimal(n \div 10) \o <<DigitChars[(n % 10) + 1]>>

\* What follows `register` in a name: every register number, also written
\* with leading zeros, and suffixes that name no register.
RegisterSuffixes ==
    {[text |-> Decimal(n), value |-> n] : n \in 0..U8_MAX}
    \cup {[text |-> <<"0", "0", "7">>, value |-> 7], [text |-> <<"0", "2", "5", "5">>, value |-> 255]}

OrdinarySuffixes ==
    {Decimal(U8_MAX + 1), Decimal(300), Decimal(65536), <<"0", "2", "5", "6">>, <<>>, <<"x">>, <<"1", "a">>, <<"_", "1">>}

\* `register<suffix> ;` and `register<suffix> = a + 1 ;`
RegisterName(suffix) == <<"r", "e", "g", "i", "s", "t", "e", "r">> \o suffix

RegisterSrc(suffix, assigned) ==
    RegisterName(suffix) \o (IF assigned THEN <<" ", "=", " ", "a", " ", "+", " ", "1">> ELSE <<>>) \o <<" ", ";">>

RegisterSources ==
    {RegisterSrc(suffix, assigned) :
        suffix \in {r.text : r \in RegisterSuffixes} \cup OrdinarySuffixes,
        assigned \in BOOLEAN}

\* Lists of expressions, each with the code it compiles to.
Elements ==
    {[text |-> <<"a">>, code |-> <<ValueStr(<<"a">>), Action("GetVariable")>>],
     [text |-> <<"1">>, code |-> <<ValueInt(1)>>],
     [text |-> <<"b", " ", "+", " ", "2">>,
      code |-> <<ValueStr(<<"b">>), Action("GetVariable"), ValueInt(2), Action("Add2")>>]}

ElementLists == UNION {[1..n -> Elements] : n \in 0..MaxList}

RECURSIVE Join(_)
Join(es) ==
    IF es = <<>> THEN <<>>
    ELSE IF Len(es) = 1 THEN es[1].text
    ELSE es[1].text \o <<" ", ",", " ">> \o Join(Tail(es))

\* `[ e1 , ... , en ] ;` and `f ( e1 , ... , en ) ;`
ArrayOf(es) == <<"[", " ">> \o Join(es) \o <<" ", "]", " ", ";">>
CallOf(es) == <<"f", " ", "(", " ">> \o Join(es) \o <<" ", ")", " ", ";">>

ListSources ==
    {ArrayOf(es) : es \in ElementLists} \cup {CallOf(es) : es \in ElementLists}

\* Expressions that are no assignment target, each followed by ` = 1`, alone
\* as a statement, after other statements and inside a condition.
NonTargets ==
    {<<"1", " ">>,
     <<"a", " ", "+", " ", "b", " ">>,
     <<"(", " ", "a", " ", ")", " ">>,
     <<"-", " ", "a", " ">>,
     <<"a", " ", "+", "+", " ">>,
     <<"f", " ", "(", " ", ")", " ">>,
     <<"x", " ", "=", " ", "1", " ">>,
     <<"a", " ", ".", " ", "b", " ", "(", " ", ")", " ">>,
     <<"t", "r", "u", "e", " ">>,
     <<"n", "e", "w", " ", "F", " ", "(", " ", ")", " ">>,
     <<"d", "e", "l", "e", "t", "e", " ", "a", " ">>,
     <<"[", " ", "]", " ">>,
     <<"\"", "s", "\"", " ">>,
     <<"1", "\n", " ", " ">>,
     <<"t", "y", "p", "e", "o", "f", " ", "a", " ">>,
     <<"x", " ", "=", " ", "(", " ", "a", " ", ")", " ">>,
     <<"a", "\n", "+", " ", "1", "\n">>}

Openings == {<<>>, <<"z", " ", ";", " ">>, <<"z", " ", ";", "\n", "\n">>, <<"i", "f", " ", "(", " ">>, <<"y", " ", "=", " ">>}

\* The `=` after the expression is the character Len(opening \o left) + 1.
InvalidTargetSrc(opening, left) == opening \o left \o <<"=", " ", "1", " ", ";">>

InvalidTargetSources ==
    {InvalidTargetSrc(opening, left) : opening \in Openings, left \in NonTargets}

\* `o . m ( e1 , ... , en ) ;`, also under `new`.
MethodSrc(es, constructed) ==
    (IF constructed THEN <<"n", "e", "w", " ">> ELSE <<>>)
      \o <<"o", " ", ".", " ", "m", " ", "(", " ">> \o Join(es) \o <<" ", ")", " ", ";">>

MethodSources ==
    {MethodSrc(es, constructed) : es \in ElementLists, constructed \in BOOLEAN}

\* A completed expression followed by an argument list of k arguments.
Callees ==
    {<<"f", " ", "(", " ", "1", " ", ")">>,
     <<"(", " ", "f", " ", ")">>,
     <<"a", " ", ".", " ", "b", " ", "(", " ", ")">>,
     <<"a", " ", "[", " ", "0", " ", "]", " ", "(", " ", ")">>,
     <<"f", "u", "n", "c", "t", "i", "o", "n", " ", "(", " ", ")", " ", "{", " ", "}">>,
     <<"(", " ", "a", " ", ".", " ", "b", " ", ")">>}

CalleeSrc(callee, k) == callee \o <<" ", "(", " ">> \o List(<<"1">>, k) \o <<" ", ")", " ", ";">>

CalleeSources == {CalleeSrc(callee, k) : callee \in Callees, k \in 0..MaxArgs}

\* Prefix `++` and `--` before a variable, a register, a path and other
\* operands.
PrefixOperators == {<<"+", "+">>, <<"-", "-">>}

PathOperands ==
    {<<"a", " ", ".", " ", "b">>, <<"a", " ", "[", " ", "0", " ", "]">>, <<"a", " ", ".", " ", "b", " ", ".", " ", "c">>, <<"a", " ", ".", " ", "_", "x">>, <<"r", "e", "g", "i", "s", "t", "e", "r", "1", " ", ".", " ", "b">>}

OtherOperands ==
    {<<"1">>, <<"(", " ", "a", " ", ")">>, <<"\"", "s", "\"">>, <<"t", "r", "u", "e">>, <<"[", " ", "]">>, <<"-", " ", "a">>}

PrefixSrc(op, operand) == op \o <<" ">> \o operand \o <<" ", ";">>

PrefixSources ==
    {PrefixSrc(op, operand) :
        op \in PrefixOperators,
        operand \in PlainNames \cup {RegisterName(r.text) : r \in RegisterSuffixes}
                        \cup PathOperands \cup OtherOperands}

\* An expression statement over a target: a read, a plain or a compound
\* assignment, and a postfix or a unary operator, for a variable, a register
\* and the three kinds of member.
Targets ==
    {<<"x">>, <<"r", "e", "g", "i", "s", "t", "e", "r", "1">>, <<"a", " ", ".", " ", "b">>,
     <<"a", " ", "[", " ", "0", " ", "]">>, <<"a", " ", ".", " ", "_", "x">>}

TargetPrefixes == {<<>>, <<"-", " ">>, <<"!", " ">>, <<"~", " ">>, <<"+", " ">>, <<"t", "y", "p", "e", "o", "f", " ">>}

TargetSuffixes ==
    {<<>>, <<" ", "=", " ", "1">>, <<" ", "+", "=", " ", "1">>, <<" ", ">", ">", ">", "=", " ", "y">>,
     <<" ", "+", "+">>, <<" ", "-", "-">>, <<" ", "=", " ", "y", " ", "=", " ", "1">>}

TargetSrc(before, target, after) == before \o target \o after \o <<" ", ";">>

TargetSources ==
    {TargetSrc(before, target, after) :
        before \in TargetPrefixes, target \in Targets, after \in TargetSuffixes}

\* Sources that stop early or go wrong, followed by spaces, newlines and
\* comments up to the end of the text.
Stems ==
    {<<>>, <<"a">>, <<"a", " ", ";">>, <<"a", " ", "+">>, <<"i", "f", " ", "(", " ", "a">>, <<"{", " ", "a", " ", ";">>,
     <<"r", "e", "g", "i", "s", "t", "e", "r", "1", " ", "(">>, <<"a", "\n", "#">>, <<"\"", "s">>, <<"1", " ", "=", " ", "2", " ", ";">>}

Endings ==
    {<<>>, <<" ">>, <<"\n">>, <<" ", "\n", "\n">>, <<" ", "/", "/", "c">>, <<" ", "/", "/", "c", "\n">>,
     <<" ", "/", "*", "c", "*", "/">>, <<" ", "/", "*", "c", "*", "/", "\n">>, <<" ", "/", "*", "\n", "*", "/">>,
     <<" ", "/", "*", "c">>, <<" ", "/", "*", "c", "\n">>}

EndSrc(stem, ending) == stem \o ending

EndSources == {EndSrc(stem, ending) : stem \in Stems, ending \in Endings}

Sources ==
    IfSources \cup IfElseSources \cup WhileSources \cup BinarySources
    \cup NumberSources \cup BuiltinSources \cup LiteralSources \cup NewSources
    \cup TrySources \cup ChainSources \cup AssignSources \cup DotSources
    \cup RegisterSources \cup ListSources \cup InvalidTargetSources
    \cup MethodSources \cup CalleeSources \cup PrefixSources \cup TargetSources
    \cup EndSources

\* Raw texts around string literals, and block comments followed by a token.
StringAlphabet == {"\"", "a", " ", "\n"}
RawSources == Texts(StringAlphabet, MaxRaw)

CommentBodies == Texts({"*", "x", " "}, MaxComment)
CommentSrc(body) == <<"/", "*">> \o body \o <<"*", "/">> \o <<"a">>
OpenCommentSrc(body) == <<"a", " ", "/", "*">> \o body

CommentSources ==
    {CommentSrc(body) : body \in CommentBodies}
    \cup {OpenCommentSrc(body) : body \in CommentBodies}

ScanSources == RawSources \cup CommentSources

-----------------------------------------------------------------------------
(* compile, one step of Compiler::compile at a time *)

\* Before compile has returned.
NoResult == [pc |-> "new", error |-> NoError, output |-> <<>>]

Init ==
    /\ source \in Sources
    /\ scanner = ScannerNew(source)
    /\ current = INVALID
    /\ action_data = <<>>
    /\ pc = "new"
    /\ error = NoError
    /\ stdout = <<>>
    /\ output = <<>>
    /\ reads = 0
    /\ run = 1
    /\ first = NoResult

\* What a call of compile leaves behind: how it returned, its error and what
\* is in its writer.
Result == [pc |-> pc, error |-> error, output |-> output]

\* The compiler's state as a context, and back.
Here == [Context(scanner, current) EXCEPT !.data = action_data, !.stdout = stdout]

Becomes(c, next_pc) ==
    /\ scanner' = c.s
    /\ current' = c.current
    /\ action_data' = c.data
    /\ stdout' = c.stdout
    /\ error' = c.error
    /\ pc' = IF c.res = "ok" THEN next_pc ELSE c.res
    /\ UNCHANGED <<source, reads, run, first>>

\* self.read_token()?  -- "Initialize self.current"
CompilePrime ==
    /\ pc = "new"
    /\ Becomes(apply(Here, Method("read_token")), "loop")
    /\ UNCHANGED output

\* One iteration of: while self.peek_token().kind != TokenKind::Eof
CompileDeclaration ==
    /\ pc = "loop"
    /\ current.kind # "Eof"
    /\ Becomes(apply(Here, Method("declaration")), "loop")
    /\ UNCHANGED output

\* The tags compile hands to swf::write_swf.
Tag(name, data) == [tag |-> name, data |-> data]

\* A movie stamped with the number of the call that wrote it.
MovieStamped(actions) ==
    <<Tag("FileAttributes", <<>>), Tag("SetBackgroundColor", <<>>),
      Tag("DoAction", actions), Tag("ShowFrame", <<>>), Tag("Metadata", <<run>>)>>

Movie(actions) ==
    <<Tag("FileAttributes", <<>>), Tag("SetBackgroundColor", <<>>),
      Tag("DoAction", actions), Tag("ShowFrame", <<>>)>>

\* The loop ends: Ok(()), and compile writes the movie.
CompileFinish ==
    /\ pc = "loop"
    /\ current.kind = "Eof"
    /\ Becomes(Here, "ok")
    /\ output' = Movie(action_data)

Next == CompilePrime \/ CompileDeclaration \/ CompileFinish

Spec == Init /\ [][Next]_vars

\* compile is between two calls that read the source: before the first
\* read_token, or before a declaration.
Compiling == pc = "new" \/ (pc = "loop" /\ current.kind # "Eof")

\* compile runs to its return without being suspended: a step that can be
\* taken is taken. CompilePrime or CompileDeclaration can be taken exactly
\* in the states of Compiling, and every step that leaves such a state is
\* one of them, so weak fairness of the two is written with Compiling in
\* the place of their ENABLED.
TerminationSpec ==
    /\ Init /\ [][Next]_vars
    /\ WF_vars(CompileFinish)
    /\ ([]<>~Compiling \/ []<><<Compiling>>_vars)

-----------------------------------------------------------------------------
(* compile called a second time on the same source *)

\* The first call has returned; compile(source, output) is called again with
\* a new CompilerState, a new Compiler and an empty writer.
CompileAgain ==
    /\ pc \in {"ok", "err", "panic"}
    /\ run = 1
    /\ run' = 2
    /\ first' = Result
    /\ scanner' = ScannerNew(source)
    /\ current' = INVALID
    /\ action_data' = <<>>
    /\ pc' = "new"
    /\ error' = NoError
    /\ stdout' = <<>>
    /\ output' = <<>>
    /\ UNCHANGED <<source, reads>>

RerunNext == Next \/ CompileAgain

RerunSpec == Init /\ [][RerunNext]_vars

-----------------------------------------------------------------------------
(* The scanner driven on its own: a client calling Scanner::read_token *)

ScanInit ==
    /\ source \in ScanSources
    /\ scanner = ScannerNew(source)
    /\ current = INVALID
    /\ action_data = <<>>
    /\ pc = "new"
    /\ error = NoError
    /\ stdout = <<>>
    /\ output = <<>>
    /\ reads = 0
    /\ run = 1
    /\ first = NoResult

\* One call of read_token; the token returned becomes `current`.
ScanReadToken ==
    /\ pc = "new"
    /\ reads < MaxReads
    /\ LET r == read_token(scanner) IN
       /\ scanner' = r.s
       /\ current' = IF r.ok THEN r.token ELSE current
       /\ error' = r.error
       /\ pc' = IF r.ok THEN pc ELSE "err"
    /\ reads' = reads + 1
    /\ UNCHANGED <<source, action_data, stdout, output, run, first>>

ScanNext == ScanReadToken

ScanSpec == ScanInit /\ [][ScanNext]_vars

-----------------------------------------------------------------------------
(* Properties of the compiled code *)

\* compile has returned: Ok (the movie is written), a CompileError, or a panic.
Terminal == pc \in {"ok", "err", "panic"}

DropLast(data) == SubSeq(data, 1, Len(data) - 1)

\* The code of the expression e alone: `e ;` without the Pop of its statement.
ExprCode(e) == DropLast(Compile(e \o <<" ", ";">>).data)

\* The code of the statements in a text.
StmtCode(text) == Compile(text).data

\* The index of the first action op in data, 0 when there is none.
FirstIndex(data, op) ==
    IF \E i \in DOMAIN data : data[i].op = op
    THEN CHOOSE i \in DOMAIN data :
             data[i].op = op /\ \A j \in 1..(i - 1) : data[j].op # op
    ELSE 0

\* The byte a branch at index i lands on: its offset counted from its end.
BranchTarget(data, i) == ByteLen(SubSeq(data, 1, i)) + data[i].n

\* The byte the first If of data lands on.
IfTarget(data) == BranchTarget(data, FirstIndex(data, "If"))

\* C1: the If that `if (c) S1` and `if (c) S1 else S2` emit carries the exact
\* distance from its end to its target: the first byte after the then body
\* when there is no else, and the first byte of the else body, past the Jump
\* that closes the then branch, when there is one.
C1_IfOffsetIsExact ==
    /\ \A p \in Prefixes, c \in Conds, s \in Bodies :
           (source = IfSrc(p, c, s) /\ pc = "ok")
               => IfTarget(action_data) = ByteLen(action_data)
    /\ \A p \in Prefixes, c \in Conds, s1 \in ThenBodies, s2 \in Bodies :
           (source = IfElseSrc(p, c, s1, s2) /\ pc = "ok")
               => IfTarget(action_data)
                      = ByteLen(action_data) - ByteLen(StmtCode(s2))

\* C2: the If that `while (c) S` emits carries the exact distance from its end
\* to the loop exit, the first byte after the loop's trailing Jump.
C2_WhileIfOffsetIsExact ==
    \A p \in Prefixes, c \in Conds, s \in Bodies :
        (source = WhileSrc(p, c, s) /\ pc = "ok")
            => IfTarget(action_data) = ByteLen(action_data)

\* The last action of data is a backward Jump that lands on the first byte of
\* the code `condition`, which lies just before the first If of data.
JumpLandsOnCondition(data, condition, if_index) ==
    /\ if_index > Len(condition)
    /\ SubSeq(data, if_index - Len(condition), if_index - 1) = condition
    /\ data[Len(data)].op = "Jump"
    /\ data[Len(data)].n < 0
    /\ BranchTarget(data, Len(data))
           = ByteLen(SubSeq(data, 1, if_index - Len(condition) - 1))

\* C3: the Jump that ends the code of `while (c) S` carries a negative offset
\* that, counted from the end of the Jump, lands exactly on the first byte of
\* the condition's code, whatever the lengths of the condition and the body.
C3_WhileJumpLandsOnCondition ==
    \A p \in Prefixes, c \in Conds, s \in Bodies :
        (source = WhileSrc(p, c, s) /\ pc = "ok")
            => JumpLandsOnCondition(action_data, ExprCode(c),
                                    FirstIndex(action_data, "If"))

\* A loop after other code, with a condition of several actions and a block
\* body, has been compiled.
C3_Witness ==
    /\ pc = "ok"
    /\ source = WhileSrc(<<"z", " ", ";", " ">>,
                         <<"a", " ", "<", " ", "1">>, Block(MaxBody))
    /\ action_data[Len(action_data)].op = "Jump"

\* C4: compile returns Ok or a CompileError with its message, line and column;
\* it never aborts through an unwrap or an unreachable!.
C4_FailuresAreCompileErrors ==
    /\ pc # "panic"
    /\ pc = "err" => error # NoError

\* C5: `a != b` compiles to the code of a, the code of b, Equals2, Not.
C5_BangEqualCompiles ==
    \A x \in Operands, y \in Operands :
        (source = BinarySrc(x, <<"!", "=">>, y) /\ Terminal)
            => /\ pc = "ok"
               /\ action_data = ExprCode(x) \o ExprCode(y)
                      \o <<Action("Equals2"), Action("Not"), Action("Pop")>>

\* C6: a builtin of arity N called with M arguments compiles, when M = N, to
\* the arguments in order and the builtin's action; when M # N it fails with
\* "Expected N argument(s), got M", M the number of arguments written.
C6_BuiltinArityIsReported ==
    \A name \in BuiltinNames, m \in 0..MaxArgs :
        (source = CallSrc(name, m) /\ Terminal)
            => IF m = Builtin(name).arity
               THEN /\ pc = "ok"
                    /\ action_data = Repeat(<<ValueInt(1)>>, m)
                           \o <<Action(Builtin(name).action), Action("Pop")>>
               ELSE /\ pc = "err"
                    /\ error.message =
                           "Expected " \o ToString(Builtin(name).arity)
                           \o " argument(s), got " \o ToString(m)

\* C7: an array or object literal with a comma before its closing bracket is
\* rejected with a CompileError, and no InitArray or InitObject is emitted.
C7_TrailingCommaIsRejected ==
    \A k \in 1..MaxArgs :
        (source \in {ArraySrc(k, TRUE), ObjectSrc(k, TRUE)} /\ Terminal)
            => /\ pc = "err"
               /\ \A i \in DOMAIN action_data :
                      action_data[i].op \notin {"InitArray", "InitObject"}

\* C8: the code of every `new` expression that compiles holds a NewObject or
\* a NewMethod: a `new` whose operand is not a call is rejected.
C8_NewAlwaysConstructs ==
    (source \in NewSources /\ pc = "ok")
        => \E i \in DOMAIN action_data :
               action_data[i].op \in {"NewObject", "NewMethod"}

\* The code of Block(k): k statements `b ;`.
BlockCode(k) ==
    Repeat(<<ValueStr(<<"b">>), Action("GetVariable"), Action("Pop")>>, k)

\* C11: a try with neither a catch nor a finally is rejected with a
\* CompileError and emits no Try; a try with a catch, a finally or both
\* compiles to one Try that carries the try body, the catch variable and body
\* and the finally body that were written.
C11_TryNeedsCatchOrFinally ==
    \A k \in 0..MaxBody, catch \in CatchKinds, finally \in BOOLEAN, j \in 0..MaxBody :
        (source = TrySrc(k, catch, finally, j) /\ Terminal)
            => IF catch = "none" /\ ~finally
               THEN /\ pc = "err"
                    /\ \A i \in DOMAIN action_data : action_data[i].op # "Try"
               ELSE /\ pc = "ok"
                    /\ Len(action_data) = 1
                    /\ action_data[1].op = "Try"
                    /\ action_data[1].sub[1] = BlockCode(k)
                    /\ ("catch" \in action_data[1].flags) = (catch # "none")
                    /\ catch # "none" => action_data[1].sub[2] = BlockCode(j)
                    /\ catch = "var" => /\ action_data[1].t = "Var"
                                        /\ action_data[1].s = <<"e">>
                    /\ catch = "register" => /\ action_data[1].t = "Register"
                                             /\ action_data[1].n = 1
                    /\ ("finally" \in action_data[1].flags) = finally
                    /\ finally => action_data[1].sub[3] = BlockCode(j)

\* C12: compiling prints nothing to standard output, and the output writer
\* receives nothing unless compilation succeeded, and then the movie with the
\* compiled actions.
C12_CompilationDoesNoIO ==
    /\ stdout = <<>>
    /\ pc # "ok" => output = <<>>
    /\ pc = "ok" => output = Movie(action_data)

\* The kind of the token an operator is read as.
OpKind(op) == read_token(ScannerNew(op)).token.kind

\* The code of a read of the variable v.
VarCode(v) == <<ValueStr(v), Action("GetVariable")>>

\* The code of `a op1 b op2 c ;` grouped to the left, ((a op1 b) op2 c), and
\* grouped to the right, (a op1 (b op2 c)).
GroupedLeft(op1, op2) ==
    VarCode(<<"a">>) \o VarCode(<<"b">>) \o BinaryActions(OpKind(op1))
        \o VarCode(<<"c">>) \o BinaryActions(OpKind(op2)) \o <<Action("Pop")>>
GroupedRight(op1, op2) ==
    VarCode(<<"a">>) \o VarCode(<<"b">>) \o VarCode(<<"c">>)
        \o BinaryActions(OpKind(op2)) \o BinaryActions(OpKind(op1))
        \o <<Action("Pop")>>

\* C13: the code of a chain `a op1 b op2 c` of binary operators that compiles
\* is grouped by the precedence table with left associativity: when op2 binds
\* tighter than op1 its opcode comes first, after the code of c; otherwise,
\* equal precedence included, the opcode of op1 comes before the code of c
\* and the opcode of op2 after it.  `a = b = c` groups to the right.
C13_BinaryGrouping ==
    /\ \A op1 \in BinaryOperators, op2 \in BinaryOperators :
           (source = ChainSrc(op1, op2) /\ pc = "ok")
               => action_data =
                      IF precedence(OpKind(op2)) > precedence(OpKind(op1))
                      THEN GroupedRight(op1, op2)
                      ELSE GroupedLeft(op1, op2)
    /\ (source = ChainSrc(<<"=">>, <<"=">>) /\ Terminal)
           => /\ pc = "ok"
              /\ action_data =
                     <<ValueStr(<<"a">>), ValueStr(<<"b">>)>> \o VarCode(<<"c">>)
                         \o <<Action("SetVariable"), Action("SetVariable"),
                              Action("Pop")>>

\* `a - b - c ;` has been compiled, with a Subtract before the code of c.
C13_Witness ==
    /\ pc = "ok"
    /\ source = ChainSrc(<<"-">>, <<"-">>)
    /\ Len(action_data) = 9
    /\ action_data[5].op = "Subtract"
    /\ action_data[8].op = "Subtract"

\* The tokens a declaration that is not an expression statement starts with.
StatementKeywords ==
    {"Var", "Function", "LeftBrace", "If", "While", "Try", "Trace"}

\* `longer` is `shorter` followed by code that holds exactly one Pop, its
\* last action.
AppendsOnePop(shorter, longer) ==
    /\ Len(longer) > Len(shorter)
    /\ SubSeq(longer, 1, Len(shorter)) = shorter
    /\ \A i \in (Len(shorter) + 1)..Len(longer) :
           (longer[i].op = "Pop") = (i = Len(longer))

\* `v = N ;` has compiled to Push Str(v), Push Int(N), SetVariable, Pop.
AssignCompiled ==
    \A v \in PlainNames, l \in IntLiterals :
        (source = AssignSrc(v, l.text) /\ Terminal)
            => /\ pc = "ok"
               /\ action_data = <<ValueStr(v), ValueInt(l.value),
                                  Action("SetVariable"), Action("Pop")>>

\* C14: for a plain variable v and an integer literal N that fits an i32,
\* `v = N ;` compiles to exactly Push Str(v), Push Int(N), SetVariable, Pop;
\* and every expression statement that compiles appends code with exactly one
\* Pop, which is its last action.
C14_ExpressionStatementEndsWithPop ==
    [][/\ AssignCompiled'
       /\ (pc = "loop" /\ current.kind \notin StatementKeywords /\ pc' = "loop")
              => AppendsOnePop(action_data, action_data')]_vars

\* `$ = 2147483647 ;` has been compiled.
C14_Witness ==
    /\ pc = "ok"
    /\ source = AssignSrc(<<"$">>, <<"2", "1", "4", "7", "4", "8", "3", "6", "4", "7">>)
    /\ action_data[Len(action_data)].op = "Pop"

\* The code of `x . name` read, and of `x . name = 1`, with the value pushed
\* for the name and the actions that get and set it.
DotCode(assigned, key, get, set) ==
    VarCode(<<"x">>)
        \o (IF assigned THEN <<key, ValueInt(1), Action(set)>>
            ELSE <<key, Action(get)>>)
        \o <<Action("Pop")>>

\* C15: for the i-th name of the property table, `x . name` compiles to
\* Push Str("x"), GetVariable, Push Int(i - 1), GetProperty, and an assignment
\* to it ends with SetProperty; for every other name the name is pushed as a
\* string with GetMember or SetMember.  The table holds 22 distinct names
\* with the indices 0..21.
C15_PropertyIndexSelectsProperty ==
    /\ Len(PropertyNames) = 22
    /\ \A i \in DOMAIN PropertyNames, j \in DOMAIN PropertyNames :
           PropertyNames[i] = PropertyNames[j] => i = j
    /\ \A i \in DOMAIN PropertyNames :
           property_index(PropertyNames[i]) = Some(i - 1)
    /\ \A name \in MemberNames : property_index(name) = None
    /\ \A i \in DOMAIN PropertyNames, assigned \in BOOLEAN :
           (source = DotSrc(PropertyNames[i], assigned) /\ Terminal)
               => /\ pc = "ok"
                  /\ action_data = DotCode(assigned, ValueInt(i - 1),
                                           "GetProperty", "SetProperty")
    /\ \A name \in MemberNames, assigned \in BOOLEAN :
           (source = DotSrc(name, assigned) /\ Terminal)
               => /\ pc = "ok"
                  /\ action_data = DotCode(assigned, ValueStr(name),
                                           "GetMember", "SetMember")

\* `x . _ymouse = 1 ;` has been compiled with the last index of the table.
C15_Witness ==
    /\ pc = "ok"
    /\ source = DotSrc(PropertyNames[22], TRUE)
    /\ action_data[3] = ValueInt(21)
    /\ action_data[5].op = "SetProperty"

\* The code of the expression `a + 1`.
APlusOne == VarCode(<<"a">>) \o <<ValueInt(1), Action("Add2")>>

\* C16: for every N in 0..255 a read of `registerN` compiles to the single
\* Push Register(N), and `registerN = expr` to the code of expr followed by
\* StoreRegister(N), with no Push Str, GetVariable or SetVariable; a name
\* `register` with a number above 255 or a suffix that is no number is read
\* and assigned as an ordinary variable of that name.
C16_RegisterNamesUseRegisters ==
    /\ \A r \in RegisterSuffixes, assigned \in BOOLEAN :
           (source = RegisterSrc(r.text, assigned) /\ Terminal)
               => /\ pc = "ok"
                  /\ action_data =
                         IF assigned
                         THEN APlusOne \o <<StoreRegister(r.value), Action("Pop")>>
                         ELSE <<ValueRegister(r.value), Action("Pop")>>
    /\ \A suffix \in OrdinarySuffixes, assigned \in BOOLEAN :
           (source = RegisterSrc(suffix, assigned) /\ Terminal)
               => /\ pc = "ok"
                  /\ action_data =
                         IF assigned
                         THEN <<ValueStr(RegisterName(suffix))>> \o APlusOne
                                  \o <<Action("SetVariable"), Action("Pop")>>
                         ELSE VarCode(RegisterName(suffix)) \o <<Action("Pop")>>

\* `register255 = a + 1 ;` has been compiled into a StoreRegister.
C16_Witness ==
    /\ pc = "ok"
    /\ source = RegisterSrc(Decimal(U8_MAX), TRUE)
    /\ action_data[Len(action_data) - 1] = StoreRegister(U8_MAX)

\* The codes of the expressions es, the last expression's code first.
RECURSIVE ReverseSplice(_)
ReverseSplice(es) ==
    IF es = <<>> THEN <<>> ELSE ReverseSplice(Tail(es)) \o Head(es).code

\* C17: an array literal `[e1, ..., en]`, n >= 0, compiles to the codes of
\* en, ..., e1, each intact, then Push Int(n) and InitArray; a call
\* `f(e1, ..., en)` to the same codes, then Push Int(n), Push Str("f") and
\* CallFunction.
C17_ListsAreSplicedInReverse ==
    \A es \in ElementLists :
        /\ (source = ArrayOf(es) /\ Terminal)
               => /\ pc = "ok"
                  /\ action_data =
                         ReverseSplice(es)
                             \o <<ValueInt(Len(es)), Action("InitArray"),
                                  Action("Pop")>>
        /\ (source = CallOf(es) /\ Terminal)
               => /\ pc = "ok"
                  /\ action_data =
                         ReverseSplice(es)
                             \o <<ValueInt(Len(es)), ValueStr(<<"f">>),
                                  Action("CallFunction"), Action("Pop")>>

\* `[ a , b + 2 , 1 ] ;` has been compiled: the code of 1 comes first.
C17_Witness ==
    /\ pc = "ok"
    /\ source = <<"[", " ", "a", " ", ",", " ", "b", " ", "+", " ", "2", " ", ",", " ", "1", " ", "]", " ", ";">>
    /\ action_data[1] = ValueInt(1)
    /\ action_data[Len(action_data) - 1].op = "InitArray"

-----------------------------------------------------------------------------
(* Properties of the scanner *)

\* The index of the last quote of a text, the line it is on and its column.
LastQuote(text) ==
    CHOOSE i \in DOMAIN text :
        text[i] = "\"" /\ \A j \in (i + 1)..Len(text) : text[j] # "\""
LineAt(text, i) == 1 + Cardinality({j \in 1..(i - 1) : text[j] = "\n"})
ColumnAt(text, i) ==
    Cardinality({j \in 1..i : \A k \in j..(i - 1) : text[k] # "\n"})

\* C9: "Unclosed string" is reported at the line and the column of the quote
\* that opens the string, the position a token starting there carries.
C9_UnclosedStringAtOpeningQuote ==
    error.message = "Unclosed string"
        => /\ error.line = LineAt(source, LastQuote(source))
           /\ error.column = ColumnAt(source, LastQuote(source))

\* C10: a block comment ends at the first `*/` after its `/*`, whatever comes
\* before it in the comment, and the token after it is returned; a comment
\* that is never closed runs to the end of input and gives Eof without error.
C10_BlockCommentEndsAtFirstClose ==
    /\ \A body \in CommentBodies :
           (source = CommentSrc(body) /\ reads = 1)
               => /\ pc # "err"
                  /\ current.kind = "Identifier"
                  /\ current.source = <<"a">>
    /\ \A body \in CommentBodies :
           (source = OpenCommentSrc(body) /\ reads = 2)
               => /\ pc # "err"
                  /\ current.kind = "Eof"

-----------------------------------------------------------------------------
(* Properties of assignments and calls *)

\* The actions of data that store a value.
Stores(data) ==
    {i \in DOMAIN data :
        data[i].op \in {"SetVariable", "SetMember", "SetProperty", "StoreRegister"}}

\* C19: when an expression that was not consumed as an assignable variable,
\* dot or index access is followed by `=`, compile fails with "Invalid
\* assignment target" at the line and column of that `=`, and no SetVariable,
\* SetMember, SetProperty or StoreRegister is emitted for that `=`: the code
\* stores no more often than the expression before the `=` does by itself.
C19_InvalidAssignmentTarget ==
    \A opening \in Openings, left \in NonTargets :
        (source = InvalidTargetSrc(opening, left) /\ Terminal)
            => /\ pc = "err"
               /\ error = CompileError("Invalid assignment target",
                                       LineAt(source, Len(opening \o left) + 1),
                                       ColumnAt(source, Len(opening \o left) + 1))
               /\ Cardinality(Stores(action_data))
                      <= Cardinality(Stores(ExprCode(left)))

\* `z ;`, two newlines, `a`, a newline, `+ 1`, a newline and `= 1 ;`: the
\* error is reported on line 5.
C19_Witness ==
    /\ pc = "err"
    /\ source = InvalidTargetSrc(<<"z", " ", ";", "\n", "\n">>, <<"a", "\n", "+", " ", "1", "\n">>)
    /\ error = CompileError("Invalid assignment target", 5, 1)

\* A value on the AVM1 operand stack: a pushed constant, the value of a
\* variable, or the result of an operation on the values in args.
StackValue(kind, s, n, args) == [kind |-> kind, s |-> s, n |-> n, args |-> args]

\* The operand stack, top last, after one action has executed.
Execute(stack, action) ==
    LET top == stack[Len(stack)]
        below == stack[Len(stack) - 1]
    IN  CASE action.op = "Push" ->
                 Append(stack, StackValue(action.t, action.s, action.n, <<>>))
          [] action.op = "GetVariable" ->
                 Append(DropLast(stack), StackValue("Variable", top.s, 0, <<>>))
          [] action.op = "StackSwap" ->
                 DropLast(DropLast(stack)) \o <<top, below>>
          [] action.op \in {"Add2", "Less", "GetMember"} ->
                 Append(DropLast(DropLast(stack)),
                        StackValue(action.op, <<>>, 0, <<below, top>>))
          [] action.op = "Not" ->
                 IF stack = <<>> THEN <<StackValue("Not", <<>>, 0, <<>>)>>
                 ELSE Append(DropLast(stack), StackValue("Not", <<>>, 0, <<top>>))
          [] action.op = "CallFunction" ->
                 Append(SubSeq(stack, 1, Len(stack) - 2 - below.n),
                        StackValue("CallFunction", top.s, 0,
                                   SubSeq(stack, Len(stack) - 1 - below.n,
                                          Len(stack) - 2)))
          [] action.op = "Pop" -> DropLast(stack)
          [] OTHER -> stack

\* The operand stack after the first k actions of data have executed.
RECURSIVE StackAfter(_, _)
StackAfter(data, k) ==
    IF k = 0 THEN <<>> ELSE Execute(StackAfter(data, k - 1), data[k])

\* The values of the expressions es, the last expression's value first.
RECURSIVE ValuesReversed(_)
ValuesReversed(es) ==
    IF es = <<>> THEN <<>>
    ELSE ValuesReversed(Tail(es)) \o StackAfter(Head(es).code, Len(Head(es).code))

\* C20: when the CallMethod (NewMethod under `new`) of `o . m (a1, ..., an)`
\* executes, the operand stack holds, from the top: the method name, the
\* object, the argument count n, and the arguments with a1 uppermost.
C20_MethodCallStack ==
    \A es \in ElementLists, constructed \in BOOLEAN :
        (source = MethodSrc(es, constructed) /\ pc = "ok")
            => LET call == FirstIndex(action_data,
                                      IF constructed THEN "NewMethod"
                                      ELSE "CallMethod")
               IN  /\ call > 0
                   /\ StackAfter(action_data, call - 1)
                          = ValuesReversed(es)
                                \o <<StackValue("Int", <<>>, Len(es), <<>>),
                                     StackValue("Variable", <<"o">>, 0, <<>>),
                                     StackValue("Str", <<"m">>, 0, <<>>)>>

\* C21: a `(` after a completed expression, as in `f ( 1 ) ( 2 )` or
\* `( f ) ( 1 )`, is compiled as a call of that expression's value: compile
\* succeeds, the code ends in a call action and its Pop, and the error
\* "Expected binary operator" is not returned.
C21_ParenAfterExpressionIsCall ==
    \A callee \in Callees, k \in 0..MaxArgs :
        (source = CalleeSrc(callee, k) /\ Terminal)
            => /\ pc = "ok"
               /\ error.message # "Expected binary operator"
               /\ Len(action_data) >= 2
               /\ action_data[Len(action_data) - 1].op
                      \in {"CallFunction", "CallMethod"}

\* The action of a prefix operator.
StepAction(op) ==
    IF op = <<"+", "+">> THEN Action("Increment") ELSE Action("Decrement")

\* C22: prefix `++` and `--` before a variable v compile to Push Str(v) twice,
\* GetVariable, Increment or Decrement, SetVariable; before a register to
\* Push Register(n), the step, StoreRegister(n); before a dotted or indexed
\* path or any other operand they are rejected with a CompileError.
C22_PrefixOnlyOnNames ==
    \A op \in PrefixOperators :
        /\ \A v \in PlainNames :
               (source = PrefixSrc(op, v) /\ Terminal)
                   => /\ pc = "ok"
                      /\ action_data =
                             <<ValueStr(v), ValueStr(v), Action("GetVariable"),
                               StepAction(op), Action("SetVariable"),
                               Action("Pop")>>
        /\ \A r \in RegisterSuffixes :
               (source = PrefixSrc(op, RegisterName(r.text)) /\ Terminal)
                   => /\ pc = "ok"
                      /\ action_data =
                             <<ValueRegister(r.value), StepAction(op),
                               StoreRegister(r.value), Action("Pop")>>
        /\ \A operand \in PathOperands \cup OtherOperands :
               (source = PrefixSrc(op, operand) /\ Terminal) => pc = "err"

\* The closures that are handed to Compiler::nested.
NestedClosures == {"expression", "statement", "block_statement"}

\* nested(outer, f) has left the buffer of outer as it was, has returned the
\* code f writes into an empty buffer when it succeeded and the error of f
\* when it failed.
NestedKeepsOuter(outer, f, returned, alone) ==
    /\ returned.data = outer.data
    /\ returned.res = alone.res
    /\ returned.error = alone.error
    /\ returned.res = "ok" => returned.buf = alone.data

-----------------------------------------------------------------------------
(* Properties of the scanner at the end of input *)

\* C24: once read_token has returned Eof, every later call returns Eof with
\* an empty lexeme and the same line and column, and no call of read_token
\* moves the scanner's offset or its position in the characters backwards.
C24_EofIsSticky ==
    [][/\ scanner'.offset >= scanner.offset
       /\ scanner'.chars >= scanner.chars
       /\ (reads > 0 /\ current.kind = "Eof" /\ reads' = reads + 1)
              => /\ pc' # "err"
                 /\ current'.kind = "Eof"
                 /\ current'.source = <<>>
                 /\ current'.line = current.line
                 /\ current'.column = current.column]_vars

-----------------------------------------------------------------------------
(* Properties of the operand stack *)

\* The value on top of the operand stack after data has executed.
ValueLeftBy(data) == StackAfter(data, Len(data))[Len(StackAfter(data, Len(data)))]

\* C25: in the code of `while (c) S` the value the loop's If consumes is the
\* negation of the value the condition's code leaves: Not comes after the
\* condition's code and directly before the If.
C25_WhileNegatesCondition ==
    \A p \in Prefixes, c \in Conds, b \in Bodies :
        (source = WhileSrc(p, c, b) /\ pc = "ok")
            => /\ action_data[FirstIndex(action_data, "If") - 1].op = "Not"
               /\ ValueLeftBy(SubSeq(action_data, 1,
                                     FirstIndex(action_data, "If") - 1))
                      = StackValue("Not", <<>>, 0, <<ValueLeftBy(ExprCode(c))>>)

\* What one action adds to the depth of the operand stack, for the actions
\* that expressions without calls compile to.
StackEffect(action) ==
    CASE action.op \in {"Push", "PushDuplicate"} -> 1
      [] action.op \in {"GetVariable", "Not", "Increment", "Decrement", "TypeOf",
                        "ToNumber", "StoreRegister", "StackSwap", "Delete2"} -> 0
      [] action.op \in {"Add2", "Subtract", "Multiply", "Divide", "Modulo",
                        "BitAnd", "BitOr", "BitXor", "BitLShift", "BitRShift",
                        "BitURShift", "Equals2", "StrictEquals", "Less", "Greater",
                        "InstanceOf", "GetMember", "GetProperty", "Delete", "Pop"} -> -1
      [] action.op = "SetVariable" -> -2
      [] action.op \in {"SetMember", "SetProperty"} -> -3

\* The depth of the operand stack after the first k actions of data, from an
\* empty stack.
RECURSIVE DepthAfter(_, _)
DepthAfter(data, k) ==
    IF k = 0 THEN 0 ELSE DepthAfter(data, k - 1) + StackEffect(data[k])

\* C26: the code of an expression statement over a read, a literal, a binary
\* or unary operator, a plain or compound assignment or an increment leaves
\* the operand stack one deeper before its final Pop, so the Pop returns the
\* stack to its depth before the statement.
C26_ExpressionLeavesOneValue ==
    (source \in TargetSources \cup PrefixSources \cup BinarySources \cup AssignSources
         /\ pc = "ok")
        => /\ DepthAfter(action_data, Len(action_data) - 1) = 1
           /\ DepthAfter(action_data, Len(action_data)) = 0

-----------------------------------------------------------------------------
(* Properties of error positions *)

\* The number of lines of a text as split on newlines: a final newline does
\* not start a further line.
LineCount(text) ==
    Cardinality({i \in DOMAIN text : text[i] = "\n"})
        + (IF text # <<>> /\ text[Len(text)] # "\n" THEN 1 ELSE 0)

\* C27: every CompileError carries a position inside the source: its line is
\* at least 1 and at most the number of lines of the source, and its column
\* is at least 1.
C27_ErrorPositionInsideSource ==
    pc = "err"
        => /\ 1 <= error.line
           /\ error.line <= LineCount(source)
           /\ error.column >= 1

-----------------------------------------------------------------------------
(* Properties of termination *)

\* What is left to compile: the characters the scanner has not read, and the
\* token in `current` unless it is Eof.
Unread(s, token) ==
    (Len(s.source) - s.chars) + (IF token.kind = "Eof" THEN 0 ELSE 1)

\* Wherever it starts in the source, a call of read_token consumes at least
\* one character or returns Eof.
ReadTokenAdvances ==
    \A k \in 0..Len(source) :
        Bind(read_token([ScannerNew(source) EXCEPT !.chars = k]), LAMBDA r :
            r.s.chars > k \/ (r.ok /\ r.token.kind = "Eof"))

\* The bodies of the loops over declarations and over the expressions of a
\* list, started between two declarations, consume a token or fail.
LoopBodiesAdvance ==
    (pc = "loop" /\ current.kind # "Eof")
        => \A f \in {"declaration", "expression"} :
               Bind(apply(Here, Method(f)), LAMBDA c :
                   Failed(c) \/ Unread(c.s, c.current) < Unread(scanner, current))

\* C28: compilation terminates: every call of read_token consumes a character
\* or returns Eof, every iteration of the loop over the top-level
\* declarations and every loop body consumes a token or fails, and compile
\* eventually returns Ok or a CompileError.
C28_CompilationTerminates ==
    /\ []ReadTokenAdvances
    /\ []LoopBodiesAdvance
    /\ [][(pc = "loop" /\ pc' = "loop")
              => Unread(scanner', current') < Unread(scanner, current)]_vars
    /\ <>(pc \in {"ok", "err"})

=============================================================================
